---- MODULE Spec2Model ----
(***************************************************************************)
(* MathQuest Odyssey: the CrossMath puzzle generator                       *)
(* (src/utils/puzzleGenerator.ts) and the player-side equation validator   *)
(* (src/components/game/PuzzleGrid.tsx).                                   *)
(*                                                                         *)
(* Grids, rows and operation rows are 0-based functions, as the arrays of  *)
(* the source are.  A JavaScript number is an integer of the model; the    *)
(* three non-finite doubles and the values null and undefined are codes    *)
(* far outside the range any finite computation of the model reaches.     *)
(***************************************************************************)
EXTENDS Integers, Sequences, FiniteSets, TLC

\* ------------------------------------------------------------------------
\* JavaScript values
\* ------------------------------------------------------------------------
Null == 0 - 1000001
PosInf == 1000002
NegInf == 0 - 1000002
NaN == 1000003

IsFinite(x) == x # PosInf /\ x # NegInf /\ x # NaN

Abs(x) == IF x < 0 THEN 0 - x ELSE x

Sign(x) == IF x = PosInf THEN 1 ELSE IF x = NegInf THEN 0 - 1
           ELSE IF x > 0 THEN 1 ELSE IF x < 0 THEN 0 - 1 ELSE 0

Length(f) == Cardinality(DOMAIN f)

\* a + b on doubles
NumAdd(a, b) ==
  IF a = NaN \/ b = NaN THEN NaN
  ELSE IF IsFinite(a) /\ IsFinite(b) THEN a + b
  ELSE IF IsFinite(a) THEN b
  ELSE IF IsFinite(b) THEN a
  ELSE IF a = b THEN a ELSE NaN

NumNeg(a) ==
  IF a = NaN THEN NaN
  ELSE IF a = PosInf THEN NegInf
  ELSE IF a = NegInf THEN PosInf
  ELSE 0 - a

\* a - b on doubles
NumSub(a, b) == NumAdd(a, NumNeg(b))

\* a * b on doubles
NumMul(a, b) ==
  IF a = NaN \/ b = NaN THEN NaN
  ELSE IF IsFinite(a) /\ IsFinite(b) THEN a * b
  ELSE IF Sign(a) * Sign(b) = 0 THEN NaN
  ELSE IF Sign(a) * Sign(b) > 0 THEN PosInf ELSE NegInf

\* Math.round(a / b): the quotient of two doubles rounded to the nearest
\* integer, halves towards +Infinity.  A zero divisor is +0.
RoundDiv(a, b) ==
  IF a = NaN \/ b = NaN THEN NaN
  ELSE IF ~IsFinite(a) /\ ~IsFinite(b) THEN NaN
  ELSE IF ~IsFinite(a) THEN (IF Sign(a) * Sign(b) < 0 THEN NegInf ELSE PosInf)
  ELSE IF ~IsFinite(b) THEN 0
  ELSE IF b = 0 THEN (IF a = 0 THEN NaN ELSE IF a > 0 THEN PosInf ELSE NegInf)
  ELSE IF b > 0 THEN (2 * a + b) \div (2 * b)
  ELSE (2 * (0 - a) + (0 - b)) \div (2 * (0 - b))

\* Math.abs, Math.round on an integral or non-finite double
NumAbs(a) == IF a = NaN THEN NaN ELSE IF ~IsFinite(a) THEN PosInf ELSE Abs(a)

\* Math.max(1, a)
MaxOne(a) == IF a = NaN THEN NaN ELSE IF a = PosInf THEN PosInf
             ELSE IF a = NegInf THEN 1 ELSE IF a < 1 THEN 1 ELSE a

\* result % nextValue !== 0
HasRemainder(result, nextValue) ==
  IF ~IsFinite(result) \/ nextValue = NaN \/ nextValue = 0 THEN TRUE
  ELSE IF ~IsFinite(nextValue) THEN result # 0
  ELSE result % Abs(nextValue) # 0

\* ------------------------------------------------------------------------
\* Cells, rows and puzzles
\* ------------------------------------------------------------------------
Indices(n) == 0 .. (n - 1)

Cells(n) == Indices(n) \X Indices(n)

MkCell(v, f) == [value |-> v, isFixed |-> f]

\* grid.map((r) => r[col])
Column(grid, col) == [r \in DOMAIN grid |-> grid[r][col]]

SetValue(grid, pos, v) ==
  [grid EXCEPT ![pos[1]][pos[2]].value = v]

\* cells.every((cell) => cell.value !== null)
isRowComplete(cells) == \A i \in DOMAIN cells : cells[i].value # Null

\* ------------------------------------------------------------------------
\* Operations.  The type Operation is '+' | '-' | '×' | '÷'; the model writes
\* "*" for '×' and "/" for '÷'.  An element read from an empty array of
\* allowed operations is undefined.
\* ------------------------------------------------------------------------
Plus == "+"
Minus == "-"
Times == "*"
Divide == "/"
Undefined == "undefined"

Operation == {Plus, Minus, Times, Divide}

\* ------------------------------------------------------------------------
\* The generator's equation evaluator
\* ------------------------------------------------------------------------
RECURSIVE EquationLoop(_, _, _, _)
EquationLoop(cells, operations, i, result) ==
  IF i >= Length(operations) THEN TRUE
  ELSE LET op == operations[i]
           nextValue == cells[i + 1].value
       IN IF nextValue = Null THEN FALSE
          ELSE CASE op = Plus ->
                      EquationLoop(cells, operations, i + 1,
                                   NumAdd(result, nextValue))
                 [] op = Minus ->
                      EquationLoop(cells, operations, i + 1,
                                   NumSub(result, nextValue))
                 [] op = Times ->
                      EquationLoop(cells, operations, i + 1,
                                   NumMul(result, nextValue))
                 [] op = Divide ->
                      IF HasRemainder(result, nextValue) THEN FALSE
                      ELSE EquationLoop(cells, operations, i + 1,
                                        RoundDiv(result, nextValue))
                 [] OTHER ->
                      EquationLoop(cells, operations, i + 1, result)

isEquationValid(cells, operations) ==
  IF Length(cells) < 2 THEN TRUE
  ELSE EquationLoop(cells, operations, 0, cells[0].value)

\* ------------------------------------------------------------------------
\* The player-side validator of PuzzleGrid.  Its multiplication and division
\* case labels are the strings '√ó' and '√∑' of the source file, which are
\* not members of Operation.
\* ------------------------------------------------------------------------
GridTimesLabel == "sqrt-o-acute"
GridDivideLabel == "sqrt-sum"

RECURSIVE ValidateLoop(_, _, _, _)
ValidateLoop(cells, operations, i, result) ==
  IF i >= Length(operations) THEN TRUE
  ELSE LET op == operations[i]
           nextValue == cells[i + 1].value
       IN CASE op = Plus ->
                 ValidateLoop(cells, operations, i + 1,
                              NumAdd(result, nextValue))
            [] op = Minus ->
                 ValidateLoop(cells, operations, i + 1,
                              NumSub(result, nextValue))
            [] op = GridTimesLabel ->
                 ValidateLoop(cells, operations, i + 1,
                              NumMul(result, nextValue))
            [] op = GridDivideLabel ->
                 IF HasRemainder(result, nextValue) THEN FALSE
                 ELSE ValidateLoop(cells, operations, i + 1,
                                   RoundDiv(result, nextValue))
            [] OTHER ->
                 ValidateLoop(cells, operations, i + 1, result)

validateEquation(cells, operations) ==
  IF \E i \in DOMAIN cells : cells[i].value = Null THEN FALSE
  ELSE ValidateLoop(cells, operations, 0, cells[0].value)

\* ------------------------------------------------------------------------
\* The solution counter.  The search writes candidate values into the cells
\* of the puzzle itself, so every step returns the grid it leaves behind.
\* ------------------------------------------------------------------------
CandidateMax == 20

\* the cells with value null, in row-major order
findEmptyCells(puzzle) ==
  LET n == Length(puzzle.grid)
      IsEmpty(k) == puzzle.grid[k \div n][k % n].value = Null
      RECURSIVE Collect(_)
      Collect(k) == IF k >= n * n THEN << >>
                    ELSE IF IsEmpty(k) THEN << <<k \div n, k % n>> >> \o Collect(k + 1)
                    ELSE Collect(k + 1)
  IN IF n = 0 THEN << >> ELSE Collect(0)

\* isValidPlacement: ok is the verdict, grid the grid the call leaves
isValidPlacement(puzzle, cell, value) ==
  LET placed == SetValue(puzzle.grid, cell, value)
      cleared == SetValue(puzzle.grid, cell, Null)
      row == placed[cell[1]]
      col == Column(placed, cell[2])
  IN IF isRowComplete(row)
        /\ ~isEquationValid(row, puzzle.operations.horizontal[cell[1]])
     THEN [ok |-> FALSE, grid |-> cleared]
     ELSE IF isRowComplete(col)
             /\ ~isEquationValid(col, puzzle.operations.vertical[cell[2]])
     THEN [ok |-> FALSE, grid |-> cleared]
     ELSE [ok |-> TRUE, grid |-> cleared]

RECURSIVE backtrack(_, _, _, _)
RECURSIVE ForValues(_, _, _, _, _, _)
\* a search without the early exit
backtrackUncapped(puzzle, emptyCells, index, st) ==
  IF index = Len(emptyCells) THEN [st EXCEPT !.count = @ + 1]
  ELSE ForValues(puzzle, emptyCells, index, 1, CandidateMax, st)

\* st = [count, grid]: the counter and the grid as the search goes on
backtrack(puzzle, emptyCells, index, st) ==
  IF st.count > 1 THEN st
  ELSE IF index = Len(emptyCells) THEN [st EXCEPT !.count = @ + 1]
  ELSE ForValues(puzzle, emptyCells, index, 1, CandidateMax, st)

\* a loop body that leaves the value it tried in the cell
TryValueKept(puzzle, emptyCells, index, value, st) ==
  LET cell == emptyCells[index + 1]
      placement == isValidPlacement([puzzle EXCEPT !.grid = st.grid],
                                    cell, value)
  IN IF placement.ok
     THEN backtrack(puzzle, emptyCells, index + 1,
                    [st EXCEPT !.grid = SetValue(placement.grid, cell, value)])
     ELSE [st EXCEPT !.grid = placement.grid]

\* the body of the loop over value
TryValue(puzzle, emptyCells, index, value, st) ==
  LET cell == emptyCells[index + 1]
      placement == isValidPlacement([puzzle EXCEPT !.grid = st.grid],
                                    cell, value)
  IN IF placement.ok
     THEN LET inner == backtrack(puzzle, emptyCells, index + 1,
                         [st EXCEPT !.grid =
                            SetValue(placement.grid, cell, value)])
          IN [inner EXCEPT !.grid = SetValue(inner.grid, cell, Null)]
     ELSE [st EXCEPT !.grid = placement.grid]

\* the loop for (value = lo; value <= hi; value++), the range split in two
\* halves that run one after the other
ForValues(puzzle, emptyCells, index, lo, hi, st) ==
  IF lo > hi THEN st
  ELSE IF lo = hi THEN TryValue(puzzle, emptyCells, index, lo, st)
  ELSE LET mid == (lo + hi) \div 2
           first == ForValues(puzzle, emptyCells, index, lo, mid, st)
       IN \* the test makes the first half run before the second starts
          IF first.count >= 0
          THEN ForValues(puzzle, emptyCells, index, mid + 1, hi, first)
          ELSE first

\* the run of countSolutions: the count it returns and the grid it leaves
runCountSolutions(puzzle) ==
  LET emptyCells == findEmptyCells(puzzle)
  IN IF Len(emptyCells) = 0 THEN [count |-> 1, grid |-> puzzle.grid]
     ELSE backtrack(puzzle, emptyCells, 0, [count |-> 0, grid |-> puzzle.grid])

countSolutions(puzzle) == runCountSolutions(puzzle).count


\* ------------------------------------------------------------------------
\* The grid synthesizer
\* ------------------------------------------------------------------------
applyOperation(a, op, b) ==
  CASE op = Plus -> NumAdd(a, b)
    [] op = Minus -> NumSub(a, b)
    [] op = Times -> NumMul(a, b)
    [] op = Divide -> IF b # 0 THEN RoundDiv(a, b) ELSE a
    [] OTHER -> a

\* the loop over the first operations.length - 1 operations
RECURSIVE AccumulateRow(_, _, _, _)
AccumulateRow(cells, operations, i, result) ==
  IF i >= Length(operations) - 1 THEN result
  ELSE AccumulateRow(cells, operations, i + 1,
                     applyOperation(result, operations[i], cells[i + 1].value))

\* the value the switch on lastOp solves for
SolveLast(lastOp, result, secondToLast) ==
  CASE lastOp = Plus -> NumSub(result, secondToLast)
    [] lastOp = Minus -> NumSub(secondToLast, result)
    [] lastOp = Times -> RoundDiv(result, secondToLast)
    [] lastOp = Divide -> RoundDiv(secondToLast, result)
    [] OTHER -> result

\* the cells of the row or column after adjustRowToValid
adjustRowToValid(cells, operations) ==
  IF Length(cells) < 2 THEN cells
  ELSE LET n == Length(cells)
           result == AccumulateRow(cells, operations, 0, cells[0].value)
           lastOp == operations[Length(operations) - 1]
           secondToLast == cells[n - 2].value
           lastValue == MaxOne(NumAbs(SolveLast(lastOp, result, secondToLast)))
       IN [cells EXCEPT ![n - 1].value = lastValue]

RECURSIVE AdjustColumns(_, _, _)
AdjustColumns(grid, verticalOps, col) ==
  IF col >= Length(grid) THEN grid
  ELSE LET column == adjustRowToValid(Column(grid, col), verticalOps[col])
       IN AdjustColumns([r \in DOMAIN grid |-> [grid[r] EXCEPT ![col] = column[r]]],
                        verticalOps, col + 1)

\* the grid after the rows, then the columns, are adjusted
adjustGridToMakeValid(grid, horizontalOps, verticalOps) ==
  AdjustColumns([row \in DOMAIN grid |->
                   adjustRowToValid(grid[row], horizontalOps[row])],
                verticalOps, 0)

\* createValidCompletedGrid for one outcome of the random draws: values the
\* drawn cell values, horizontalOps and verticalOps the drawn operations
createValidCompletedGrid(constraints, values, horizontalOps, verticalOps) ==
  LET initial == [row \in Indices(constraints.gridSize) |->
                    [col \in Indices(constraints.gridSize) |->
                       MkCell(values[row][col], TRUE)]]
      grid == adjustGridToMakeValid(initial, horizontalOps, verticalOps)
  IN [grid |-> grid,
      operations |-> [horizontal |-> horizontalOps, vertical |-> verticalOps],
      size |-> constraints.gridSize,
      difficulty |-> constraints.difficulty,
      solution |-> [row \in DOMAIN grid |->
                      [col \in DOMAIN grid[row] |-> grid[row][col].value]]]

\* the rows generateOperationRow can return: length draws from allowedOps
OperationRows(length, allowedOps) ==
  [Indices(length) ->
     IF Len(allowedOps) = 0 THEN {Undefined}
     ELSE {allowedOps[k] : k \in 1 .. Len(allowedOps)}]


\* ------------------------------------------------------------------------
\* The constraint checker
\* ------------------------------------------------------------------------
\* every value a slot of an operation matrix can hold
AnySlot == Operation \cup {Undefined}

\* the number of slots of the rows row, row + 1, ... of an operation matrix
\* that hold an element of ops
RECURSIVE CountInRows(_, _, _)
CountInRows(matrix, ops, row) ==
  IF row >= Length(matrix) THEN 0
  ELSE Cardinality({i \in DOMAIN matrix[row] : matrix[row][i] \in ops})
       + CountInRows(matrix, ops, row + 1)

\* the number of slots of both operation matrices that hold op
OperationCount(puzzle, op) ==
  CountInRows(puzzle.operations.horizontal, {op}, 0)
  + CountInRows(puzzle.operations.vertical, {op}, 0)

\* the number of slots of both operation matrices
OperationTotal(puzzle) ==
  CountInRows(puzzle.operations.horizontal, AnySlot, 0)
  + CountInRows(puzzle.operations.vertical, AnySlot, 0)

\* a balance check that lets every puzzle pass
isOperationBalancedSkipped(puzzle, allowedOps) == TRUE

\* count / total > 0.6; 0 / 0 is NaN, which is not greater than 0.6
isOperationBalanced(puzzle, allowedOps) ==
  IF Len(allowedOps) <= 1 THEN TRUE
  ELSE LET total == OperationTotal(puzzle)
       IN \A k \in 1 .. Len(allowedOps) :
            ~(total > 0 /\ 5 * OperationCount(puzzle, allowedOps[k]) > 3 * total)

\* twice the weight of an operation
Weight2(op) ==
  CASE op = Plus -> 2
    [] op = Minus -> 3
    [] op = Times -> 4
    [] op = Divide -> 5
    [] OTHER -> 0

\* twice the total weight of the rows row, row + 1, ... of an operation matrix
RECURSIVE Weight2InRows(_, _, _)
Weight2InRows(matrix, row, i) ==
  IF row >= Length(matrix) THEN 0
  ELSE IF i >= Length(matrix[row]) THEN Weight2InRows(matrix, row + 1, 0)
  ELSE Weight2(matrix[row][i]) + Weight2InRows(matrix, row, i + 1)

\* calculateOperationComplexity as the fraction num / den, twice the total
\* weight over twice the count; the weight of undefined is undefined and makes
\* the total NaN
calculateOperationComplexity(puzzle) ==
  LET count == OperationTotal(puzzle)
      hasUndefined == OperationCount(puzzle, Undefined) > 0
      totalWeight2 == Weight2InRows(puzzle.operations.horizontal, 0, 0)
                      + Weight2InRows(puzzle.operations.vertical, 0, 0)
  IN IF count > 0
     THEN [nan |-> hasUndefined, num |-> totalWeight2, den |-> 2 * count]
     ELSE [nan |-> FALSE, num |-> 1, den |-> 1]

\* calculateDifficulty as the fraction num / den (den > 0), or NaN:
\* (emptyCells / totalCells) * 3 + opComplexity * 2 + ((size - 3) / 3) * 1.5,
\* clamped to [1, 5]
calculateDifficulty(puzzle) ==
  LET emptyCells == Len(findEmptyCells(puzzle))
      totalCells == puzzle.size * puzzle.size
      oc == calculateOperationComplexity(puzzle)
      den == 2 * totalCells * oc.den
      score == 6 * emptyCells * oc.den
               + 4 * totalCells * oc.num
               + (puzzle.size - 3) * totalCells * oc.den
      clamped == IF score > 5 * den THEN 5 * den
                 ELSE IF score < den THEN den ELSE score
  IN IF totalCells = 0 \/ oc.nan THEN [nan |-> TRUE, num |-> 0, den |-> 1]
     ELSE [nan |-> FALSE, num |-> clamped, den |-> den]

\* Math.abs(actualDifficulty - constraints.difficulty) > 1, false for NaN
DifficultyOff(actual, difficulty) ==
  ~actual.nan /\ Abs(actual.num - difficulty * actual.den) > actual.den

meetsAllConstraints(puzzle, constraints) ==
  IF ~isOperationBalanced(puzzle, constraints.operations) THEN FALSE
  ELSE IF DifficultyOff(calculateDifficulty(puzzle), constraints.difficulty)
  THEN FALSE
  ELSE TRUE

\* ------------------------------------------------------------------------
\* The cell remover
\* ------------------------------------------------------------------------
\* a target that is one cell too high
calculateCellsToRemoveUp(difficulty, gridSize) ==
  (gridSize * gridSize * (3 + difficulty)) \div 10 + 1

\* Math.floor(totalCells * (0.3 + difficulty * 0.1))
calculateCellsToRemove(difficulty, gridSize) ==
  (gridSize * gridSize * (3 + difficulty)) \div 10

\* a comparison that accepts every puzzle with a solution
IsUniqueCountAtLeast(count) == count >= 1

\* the comparison of a solution count with 1, in generate and in the remover
IsUniqueCount(count) == count = 1

\* a restore that leaves the cell as the loop body blanked it
restoreCellSkipped(puzzle, cell, backup) == puzzle

\* cell.value = backup; cell.isFixed = true
restoreCell(puzzle, cell, backup) ==
  [puzzle EXCEPT !.grid[cell[1]][cell[2]] = MkCell(backup, TRUE)]

\* a loop body whose restore writes the value back and leaves isFixed false
removeCandidateUnfixed(puzzle, removed, cell) ==
  LET backup == puzzle.grid[cell[1]][cell[2]].value
      blanked == [puzzle EXCEPT !.grid[cell[1]][cell[2]] = MkCell(Null, FALSE)]
      run == runCountSolutions(blanked)
      counted == [blanked EXCEPT !.grid = run.grid]
  IN IF IsUniqueCount(run.count)
     THEN [puzzle |-> counted, removed |-> removed + 1]
     ELSE [puzzle |-> [counted EXCEPT !.grid[cell[1]][cell[2]] =
                                         MkCell(backup, FALSE)],
           removed |-> removed]

\* the body of the loop over removalOrder for the candidate cell: the puzzle
\* and the counter removed it leaves
removeCandidate(puzzle, removed, cell) ==
  LET backup == puzzle.grid[cell[1]][cell[2]].value
      blanked == [puzzle EXCEPT !.grid[cell[1]][cell[2]] = MkCell(Null, FALSE)]
      run == runCountSolutions(blanked)
      counted == [blanked EXCEPT !.grid = run.grid]
  IN IF IsUniqueCount(run.count)
     THEN [puzzle |-> counted, removed |-> removed + 1]
     ELSE [puzzle |-> restoreCell(counted, cell, backup),
           removed |-> removed]


\* removed >= cellsToRemove, or the removal order is used up
RECURSIVE RemoveLoop(_, _, _, _, _)
RemoveLoop(puzzle, removed, removalOrder, k, cellsToRemove) ==
  IF k > Len(removalOrder) \/ removed >= cellsToRemove THEN puzzle
  ELSE LET step == removeCandidate(puzzle, removed, removalOrder[k])
       IN RemoveLoop(step.puzzle, step.removed, removalOrder, k + 1,
                     cellsToRemove)

\* the deep copy: a new grid, new operation matrices, a new solution
clonePuzzle(puzzle) ==
  [grid |-> [r \in DOMAIN puzzle.grid |->
               [c \in DOMAIN puzzle.grid[r] |->
                  MkCell(puzzle.grid[r][c].value, puzzle.grid[r][c].isFixed)]],
   operations |->
     [horizontal |-> [r \in DOMAIN puzzle.operations.horizontal |->
                        puzzle.operations.horizontal[r]],
      vertical |-> [c \in DOMAIN puzzle.operations.vertical |->
                      puzzle.operations.vertical[c]]],
   size |-> puzzle.size,
   difficulty |-> puzzle.difficulty,
   solution |-> [r \in DOMAIN puzzle.solution |-> puzzle.solution[r]]]

\* removeCellsStrategically for the removal order removalOrder
removeCellsStrategically(completedPuzzle, constraints, removalOrder) ==
  RemoveLoop(clonePuzzle(completedPuzzle), 0, removalOrder, 1,
             calculateCellsToRemove(constraints.difficulty,
                                    constraints.gridSize))

\* the importance score of a cell without its random term
BaseImportance(size, cell) ==
  (IF cell[1] > 0 /\ cell[1] < size - 1 THEN 2 ELSE 0)
  + (IF cell[2] > 0 /\ cell[2] < size - 1 THEN 2 ELSE 0)


\* ------------------------------------------------------------------------
\* The random draws
\* ------------------------------------------------------------------------
\* A number range of at most MaxDrawnRange values is drawn in full; of a wider
\* range randomInRange draws the minimum only.
MaxDrawnRange == 2

DrawnValues(numberRange) ==
  IF numberRange[2] - numberRange[1] < MaxDrawnRange
  THEN numberRange[1] .. numberRange[2]
  ELSE {numberRange[1]}

\* the grids of initial cell values
DrawnGrids(constraints) ==
  [Indices(constraints.gridSize) ->
     [Indices(constraints.gridSize) -> DrawnValues(constraints.numberRange)]]

\* At most MaxDrawnMatrices operation matrices are drawn in full; of more,
\* the matrices are drawn that hold one operation in all their slots, one
\* matrix for each allowed operation but division (with division in every
\* line the remover blanks more cells than TLC can count over).
MaxDrawnMatrices == 64

\* base ^ exponent, or some number above MaxDrawnMatrices if it is above
RECURSIVE Power(_, _)
Power(base, exponent) ==
  IF exponent <= 0 THEN 1
  ELSE LET rest == Power(base, exponent - 1)
       IN IF rest > MaxDrawnMatrices THEN rest ELSE base * rest

UniformMatrices(gridSize, allowedOps) ==
  {[r \in Indices(gridSize) |-> [i \in Indices(gridSize - 1) |-> op]] :
     op \in {allowedOps[k] : k \in 1 .. Len(allowedOps)} \ {Divide}}

\* the operation matrices: gridSize rows of gridSize - 1 operations
DrawnOperations(constraints) ==
  IF Power(Len(constraints.operations),
           constraints.gridSize * (constraints.gridSize - 1)) <= MaxDrawnMatrices
  THEN [Indices(constraints.gridSize) ->
          OperationRows(constraints.gridSize - 1, constraints.operations)]
  ELSE UniformMatrices(constraints.gridSize, constraints.operations)

\* the cells in the order calculateRemovalOrder collects them
RowMajor(size) == [k \in 1 .. size * size |-> <<(k - 1) \div size, (k - 1) % size>>]

\* The comparator of the sort draws a new random term for either cell at each
\* comparison, so the sorted order is not fixed by the scores.  A grid of at
\* most MaxShuffledCells cells is removed in every order; a larger grid, when
\* a whole attempt is one step, in the order of the scores without their
\* random terms (descending, ties in the order of collection).
MaxShuffledCells == 4

ScoreOrder(size) ==
  LET all == RowMajor(size)
      WithScore(sc) == SelectSeq(all, LAMBDA cell : BaseImportance(size, cell) = sc)
  IN WithScore(4) \o WithScore(2) \o WithScore(0)

RemovalOrders(size) ==
  IF size * size <= MaxShuffledCells
  THEN {order \in [1 .. size * size -> Cells(size)] :
          \A i, j \in 1 .. size * size : i # j => order[i] # order[j]}
  ELSE {ScoreOrder(size)}

\* ------------------------------------------------------------------------
\* One attempt of generate
\* ------------------------------------------------------------------------
MAX_ATTEMPTS == 1000

NoPuzzle ==
  [grid |-> << >>,
   operations |-> [horizontal |-> << >>, vertical |-> << >>],
   size |-> 0 - 1, difficulty |-> 0, solution |-> << >>]

\* the puzzles createValidCompletedGrid can return
CompletedGrids(constraints) ==
  {createValidCompletedGrid(constraints, values, horizontalOps, verticalOps) :
     values \in DrawnGrids(constraints),
     horizontalOps \in DrawnOperations(constraints),
     verticalOps \in DrawnOperations(constraints)}

\* the rest of the body of the loop, from the completed grid and the removal
\* order on: the puzzle it returns, or a continue
AttemptOutcome(constraints, completedGrid, removalOrder) ==
  LET removedPuzzle == removeCellsStrategically(completedGrid, constraints,
                                                removalOrder)
      run == runCountSolutions(removedPuzzle)
      puzzle == [removedPuzzle EXCEPT !.grid = run.grid]
  IN IF ~IsUniqueCount(run.count)
     THEN [returned |-> FALSE, puzzle |-> NoPuzzle, thrown |-> FALSE]
     ELSE IF ~meetsAllConstraints(puzzle, constraints)
     THEN [returned |-> FALSE, puzzle |-> NoPuzzle, thrown |-> FALSE]
     ELSE [returned |-> TRUE, puzzle |-> puzzle, thrown |-> FALSE]

\* a numberRange of null, written as a pair with no numbers
NoRange == << >>

\* const [minNum, maxNum] = numberRange, the second statement of
\* createValidCompletedGrid, throws a TypeError when numberRange is null
AttemptThrows(constraints) == constraints.numberRange = NoRange

\* what the body of the loop can end in: a puzzle it returns, a continue,
\* or an exception thrown inside the try block
Outcomes(constraints) ==
  IF AttemptThrows(constraints)
  THEN {[returned |-> FALSE, puzzle |-> NoPuzzle, thrown |-> TRUE]}
  ELSE {AttemptOutcome(constraints, completedGrid, removalOrder) :
          completedGrid \in CompletedGrids(constraints),
          removalOrder \in RemovalOrders(constraints.gridSize)}

\* a catch block that throws the exception on to the caller
AttemptEndRethrown(outcome) ==
  IF outcome.returned THEN "returned"
  ELSE IF outcome.thrown THEN "failed" ELSE "loop"

\* where the body of the loop leaves the call: return puzzle; continue after
\* a rejection; catch (error) { continue } after an exception
AttemptEnd(outcome) ==
  IF outcome.returned THEN "returned" ELSE "loop"

\* ------------------------------------------------------------------------
\* generatePuzzle: the constraints it derives from the difficulty
\* ------------------------------------------------------------------------
\* a derivation with the grid sizes one difficulty late
generatePuzzleConstraintsLate(difficulty) ==
  [gridSize |-> IF difficulty <= 3 THEN 3 ELSE IF difficulty <= 4 THEN 4 ELSE 5,
   operations |-> IF difficulty = 1 THEN <<Plus, Minus>>
                  ELSE IF difficulty = 2 THEN <<Plus, Minus, Times>>
                  ELSE <<Plus, Minus, Times, Divide>>,
   numberRange |-> IF difficulty <= 2 THEN <<1, 10>>
                   ELSE IF difficulty <= 4 THEN <<1, 20>> ELSE <<1, 30>>,
   difficulty |-> difficulty]

generatePuzzleConstraints(difficulty) ==
  [gridSize |-> IF difficulty <= 2 THEN 3 ELSE IF difficulty <= 4 THEN 4 ELSE 5,
   operations |-> IF difficulty = 1 THEN <<Plus, Minus>>
                  ELSE IF difficulty = 2 THEN <<Plus, Minus, Times>>
                  ELSE <<Plus, Minus, Times, Divide>>,
   numberRange |-> IF difficulty <= 2 THEN <<1, 10>>
                   ELSE IF difficulty <= 4 THEN <<1, 20>> ELSE <<1, 30>>,
   difficulty |-> difficulty]

\* ------------------------------------------------------------------------
\* The calls the model makes
\* ------------------------------------------------------------------------
MkConstraints(gridSize, operations, numberRange, difficulty) ==
  [gridSize |-> gridSize, operations |-> operations,
   numberRange |-> numberRange, difficulty |-> difficulty]

\* calls of generate followed attempt by attempt
GenerateInputs ==
  {MkConstraints(0, <<Plus, Minus>>, <<1, 1>>, 1),
   MkConstraints(1, <<Plus>>, <<1, 1>>, 1),
   MkConstraints(1, <<Plus>>, <<1, 1>>, 3),
   MkConstraints(2, << >>, <<1, 2>>, 3),
   MkConstraints(2, <<Divide>>, <<1, 2>>, 5),
   MkConstraints(2, <<Plus, Divide>>, <<1, 2>>, 1),
   MkConstraints(2, <<Plus, Divide>>, <<1, 2>>, 3),
   MkConstraints(2, <<Minus, Divide>>, <<1, 2>>, 4),
   MkConstraints(2, <<Plus, Divide>>, NoRange, 3)}

\* calls of generate followed step by step through their first attempts
AttemptInputs ==
  {MkConstraints(1, <<Plus>>, <<1, 1>>, 1),
   MkConstraints(2, << >>, <<1, 2>>, 3),
   MkConstraints(2, <<Plus, Divide>>, <<1, 2>>, 3),
   MkConstraints(2, <<Minus, Divide>>, <<1, 2>>, 4),
   MkConstraints(3, <<Divide>>, <<2, 2>>, 4),
   MkConstraints(2, <<Plus, Minus>>, <<1, 2>>, 2)}

\* the difficulties generatePuzzle is called with
FactoryDifficulties == {1}

\* the values of the parameter difficulty: 1 | 2 | 3 | 4 | 5
Difficulties == 1 .. 5


\* the stepwise specification follows the first MaxSteppedAttempts attempts
MaxSteppedAttempts == 1

\* ------------------------------------------------------------------------
\* The game store: the current puzzle and the game state
\* ------------------------------------------------------------------------
\* the token of a Date object
Date == "Date"

\* gameState as the store is created with and as resetGameState sets it
InitialGameState ==
  [currentPuzzle |-> NoPuzzle,
   puzzleState |-> << >>,
   hintsUsed |-> 0,
   errors |-> 0,
   startTime |-> Null,
   isPaused |-> FALSE,
   showingHint |-> Null,
   showingBarModel |-> FALSE]

\* the fields of the store the App reads; currentPuzzle NoPuzzle is null
InitialStore ==
  [hasHydrated |-> FALSE,
   userProfile |-> Null,
   currentPuzzle |-> NoPuzzle,
   gameState |-> InitialGameState]

\* set(partial): the fields of partial replace those of the store
SetStore(state, partial) ==
  [field \in DOMAIN state |->
     IF field \in DOMAIN partial THEN partial[field] ELSE state[field]]

\* puzzle.grid.map((row) => row.map((cell) => ({ ...cell })))
CopyGrid(grid) ==
  [r \in DOMAIN grid |->
     [c \in DOMAIN grid[r] |-> MkCell(grid[r][c].value, grid[r][c].isFixed)]]

setCurrentPuzzle(state, puzzle) ==
  SetStore(state,
    [currentPuzzle |-> puzzle,
     gameState |-> [currentPuzzle |-> puzzle,
                    puzzleState |-> CopyGrid(puzzle.grid),
                    hintsUsed |-> 0,
                    errors |-> 0,
                    startTime |-> Date,
                    isPaused |-> FALSE,
                    showingHint |-> Null,
                    showingBarModel |-> FALSE]])

\* the grid with the cell at (row, col) replaced by { ...cell, value }; a
\* position outside the grid replaces nothing
WithValue(grid, row, col, value) ==
  [r \in DOMAIN grid |->
     [c \in DOMAIN grid[r] |->
        IF r = row /\ c = col THEN MkCell(value, grid[r][c].isFixed)
        ELSE grid[r][c]]]

\* an update that writes the value into the cell of the puzzle as well
updateCellValueInPlace(state, row, col, value) ==
  LET gameState == state.gameState
      newPuzzleState == WithValue(gameState.puzzleState, row, col, value)
      written == [state.currentPuzzle EXCEPT
                    !.grid = WithValue(state.currentPuzzle.grid, row, col, value)]
  IN SetStore(state,
       [currentPuzzle |-> written,
        gameState |-> [gameState EXCEPT !.puzzleState = newPuzzleState,
                                        !.currentPuzzle = written]])

updateCellValue(state, row, col, value) ==
  LET gameState == state.gameState
      newPuzzleState == WithValue(gameState.puzzleState, row, col, value)
  IN SetStore(state,
       [gameState |-> [gameState EXCEPT !.puzzleState = newPuzzleState]])

\* ------------------------------------------------------------------------
\* App.startNewPuzzle
\* ------------------------------------------------------------------------
\* no call of startNewPuzzle runs: difficulty is the argument of the running
\* or the last call, first the argument of the call the chain began with,
\* calls the number of calls of generatePuzzle in the chain, failed whether
\* the chain ended without a puzzle, completed whether the mounted
\* PuzzleGrid has called onComplete
NoCall ==
  [difficulty |-> 0, first |-> 0, calls |-> 0, failed |-> FALSE,
   completed |-> FALSE]

\* what a call of generate can end in, given what one attempt can end in:
\* the puzzle of an attempt that returns, or the error thrown after
\* MAX_ATTEMPTS attempts that were all rejected
generateResults(attemptOutcomes) ==
  {[thrown |-> FALSE, puzzle |-> outcome.puzzle] :
     outcome \in {o \in attemptOutcomes : o.returned}}
  \cup (IF MAX_ATTEMPTS = 0 \/ \E o \in attemptOutcomes : ~o.returned
        THEN {[thrown |-> TRUE, puzzle |-> NoPuzzle]}
        ELSE {})

\* a fallback that stops one level early
shouldRetryAboveTwo(difficulty) == difficulty > 2

\* if (difficulty > 1), in the catch block of startNewPuzzle
shouldRetry(difficulty) == difficulty > 1

\* the body of validateAllEquations on the grid of the component
validateAllEquations(grid, puzzle) ==
  /\ \A row \in Indices(puzzle.size) :
       validateEquation(grid[row], puzzle.operations.horizontal[row])
  /\ \A col \in Indices(puzzle.size) :
       validateEquation(Column(grid, col), puzzle.operations.vertical[col])

Min(a, b) == IF a < b THEN a ELSE b

Max(a, b) == IF a > b THEN a ELSE b

\* calculateNextDifficulty(errors, timeSeconds), with currentPuzzle?.difficulty
\* || 1 as current
calculateNextDifficulty(errors, timeSeconds, current) ==
  IF errors <= 2 /\ timeSeconds < 120 THEN Min(5, current + 1)
  ELSE IF errors > 5 \/ timeSeconds > 300 THEN Max(1, current - 1)
  ELSE current

\* ------------------------------------------------------------------------
\* State
\* ------------------------------------------------------------------------
\* ------------------------------------------------------------------------
\* HintSystem: the state of the component
\* ------------------------------------------------------------------------
\* no hint has been handed to onShowHint
NoHint ==
  [level |-> 0, message |-> "", highlightCells |-> << >>,
   showBarModel |-> FALSE, operation |-> Undefined]

\* useState(1), useState(false), useState(''); no auto-hide timer is pending;
\* requests counts the calls of handleHintRequest, shown is the hint of the
\* last call
InitialHints ==
  [currentHintLevel |-> 1, showHint |-> FALSE, hintMessage |-> "",
   timers |-> << >>, requests |-> 0, shown |-> NoHint]

\* ------------------------------------------------------------------------
\* PuzzleGrid: the state of the component besides gridState and selectedCell
\* ------------------------------------------------------------------------
\* useState(null) for feedback, useState(0) for errors, useState(false) for
\* isComplete; checks are the pending callbacks of setTimeout(..., 300) in the
\* order they were started, clears counts the pending callbacks of
\* setTimeout(..., 1000); keyGrid is the gridState the registered keydown
\* handler closes over; completions lists the calls of onComplete; entries
\* and wrong count the numbers the player has entered and those of them that
\* differ from puzzle.solution; development says whether React.StrictMode
\* runs the effects of a mount twice (a development build) or once
InitialPlay ==
  [feedback |-> Null, errors |-> 0, isComplete |-> FALSE,
   checks |-> << >>, clears |-> 0, keyGrid |-> << >>,
   completions |-> << >>, entries |-> 0, wrong |-> 0,
   development |-> FALSE]

VARIABLES
  pc,           \* where the call of generate stands
  constraints,  \* the argument of generate
  outcomes,     \* what one attempt can end in, when an attempt is one step
  attempts,     \* the counter of the loop of generate
  puzzle,       \* the puzzle of the running attempt
  untried,      \* the cells of removalOrder the remover has not visited
  removed,      \* the counter of the remover
  result,       \* the puzzle generate returned
  line,         \* the cells and operations an equation evaluator is called with
  answer,       \* what countSolutions or the equation evaluators returned
  store,        \* the game store: currentPuzzle, gameState and what the App reads
  gridState,    \* the state gridState of the mounted PuzzleGrid
  selectedCell, \* the state selectedCell of the mounted PuzzleGrid
  app,          \* the running chain of calls of App.startNewPuzzle
  factory,      \* what generatePuzzle can end in, for each difficulty
  hints,        \* the state of the mounted HintSystem and its pending timers
  played        \* the other state of the mounted PuzzleGrid and its timers

componentVars == <<hints, played>>

sessionVars == <<store, gridState, selectedCell, app, factory, hints, played>>

vars == <<pc, constraints, outcomes, attempts, puzzle, untried, removed, result,
          line, answer, store, gridState, selectedCell, app, factory, hints,
          played>>

\* selectedCell null
NoCell == << >>

\* no PuzzleGrid is mounted, no call of startNewPuzzle runs
NoSession ==
  /\ store = InitialStore
  /\ gridState = << >>
  /\ selectedCell = NoCell
  /\ app = NoCall
  /\ factory = << >>
  /\ hints = InitialHints
  /\ played = InitialPlay

NoLine == [cells |-> << >>, operations |-> << >>]

NoAnswer ==
  [count |-> 0 - 1, again |-> 0 - 1, generator |-> FALSE, grid |-> FALSE]

\* a loop test that lets one more attempt run
LoopTestInclusive(n) == n <= MAX_ATTEMPTS

\* attempts++ < MAX_ATTEMPTS, on the value of attempts before the increment
LoopTest(n) == n < MAX_ATTEMPTS

InitCall(inputs) ==
  /\ pc = "loop"
  /\ constraints \in inputs
  /\ attempts = 0
  /\ puzzle = NoPuzzle
  /\ untried = {}
  /\ removed = 0
  /\ result = NoPuzzle
  /\ line = NoLine
  /\ answer = NoAnswer
  /\ NoSession

\* ---- a call of generate, one attempt a step ----
Init ==
  /\ InitCall(GenerateInputs)
  /\ outcomes = Outcomes(constraints)

\* generatePuzzle(difficulty)
InitFactory ==
  /\ InitCall({generatePuzzleConstraints(d) : d \in FactoryDifficulties})
  /\ outcomes = Outcomes(constraints)

\* one pass through the body of the loop: return puzzle, or continue
Attempt ==
  /\ pc = "loop"
  /\ LoopTest(attempts)
  /\ attempts' = attempts + 1
  /\ \E outcome \in outcomes :
       /\ pc' = AttemptEnd(outcome)
       /\ result' = IF outcome.returned THEN outcome.puzzle ELSE result
  /\ UNCHANGED <<constraints, outcomes, puzzle, untried, removed>>
  /\ UNCHANGED <<line, answer>>
  /\ UNCHANGED sessionVars

\* the loop test fails: throw new Error(...)
Exhausted ==
  /\ pc = "loop"
  /\ ~LoopTest(attempts)
  /\ attempts' = attempts + 1
  /\ pc' = "failed"
  /\ UNCHANGED <<constraints, outcomes, puzzle, untried, removed, result>>
  /\ UNCHANGED <<line, answer>>
  /\ UNCHANGED sessionVars

Next == Attempt \/ Exhausted

Spec == Init /\ [][Next]_vars

FairSpec == Spec /\ WF_vars(Next)

SpecFactory == InitFactory /\ [][Next]_vars

\* generatePuzzle(difficulty) for every difficulty
InitFactoryAll ==
  /\ InitCall({generatePuzzleConstraints(d) : d \in Difficulties})
  /\ outcomes = Outcomes(constraints)

SpecFactoryAll == InitFactoryAll /\ [][Next]_vars

\* ---- the first attempts of a call of generate, step by step ----
InitAttempt ==
  /\ InitCall(AttemptInputs)
  /\ outcomes = {}

\* createValidCompletedGrid, then the start of removeCellsStrategically
Synthesize ==
  /\ pc = "loop"
  /\ LoopTest(attempts)
  /\ attempts < MaxSteppedAttempts
  /\ attempts' = attempts + 1
  /\ \E completedGrid \in CompletedGrids(constraints) :
       puzzle' = clonePuzzle(completedGrid)
  /\ untried' = Cells(constraints.gridSize)
  /\ removed' = 0
  /\ pc' = "remove"
  /\ UNCHANGED <<constraints, outcomes, result>>
  /\ UNCHANGED <<line, answer>>
  /\ UNCHANGED sessionVars

\* one pass through the loop of the remover, for the next cell of the order
RemoveCell ==
  /\ pc = "remove"
  /\ removed < calculateCellsToRemove(constraints.difficulty,
                                      constraints.gridSize)
  /\ \E cell \in untried :
       \E step \in {removeCandidate(puzzle, removed, cell)} :
          /\ puzzle' = step.puzzle
          /\ removed' = step.removed
          /\ untried' = untried \ {cell}
  /\ UNCHANGED <<pc, constraints, outcomes, attempts, result>>
  /\ UNCHANGED <<line, answer>>
  /\ UNCHANGED sessionVars

\* the loop of the remover ends: return puzzle
RemoveDone ==
  /\ pc = "remove"
  /\ \/ untried = {}
     \/ removed >= calculateCellsToRemove(constraints.difficulty,
                                          constraints.gridSize)
  /\ pc' = "verify"
  /\ UNCHANGED <<constraints, outcomes, attempts, puzzle, untried, removed, result>>
  /\ UNCHANGED <<line, answer>>
  /\ UNCHANGED sessionVars

\* if (this.countSolutions(puzzle) !== 1) continue
VerifyUnique ==
  /\ pc = "verify"
  /\ \E run \in {runCountSolutions(puzzle)} :
       IF ~IsUniqueCount(run.count)
       THEN pc' = "loop" /\ puzzle' = NoPuzzle /\ untried' = {} /\ removed' = 0
       ELSE pc' = "check" /\ puzzle' = [puzzle EXCEPT !.grid = run.grid]
            /\ UNCHANGED <<untried, removed>>
  /\ UNCHANGED <<constraints, outcomes, attempts, result>>
  /\ UNCHANGED <<line, answer>>
  /\ UNCHANGED sessionVars

\* if (!this.meetsAllConstraints(puzzle, constraints)) continue; return puzzle
CheckConstraints ==
  /\ pc = "check"
  /\ IF meetsAllConstraints(puzzle, constraints)
     THEN pc' = "returned" /\ result' = puzzle /\ UNCHANGED <<puzzle, untried, removed>>
     ELSE pc' = "loop" /\ result' = result
          /\ puzzle' = NoPuzzle /\ untried' = {} /\ removed' = 0
  /\ UNCHANGED <<constraints, outcomes, attempts>>
  /\ UNCHANGED <<line, answer>>
  /\ UNCHANGED sessionVars

NextAttempt ==
  Synthesize \/ RemoveCell \/ RemoveDone \/ VerifyUnique \/ CheckConstraints

SpecAttempt == InitAttempt /\ [][NextAttempt]_vars

\* ------------------------------------------------------------------------
\* countSolutions as a function of the puzzle it is called on
\* ------------------------------------------------------------------------
\* a grid of fixed cells from its rows, and an operation matrix from its rows
GridOf(rows) ==
  [r \in Indices(Len(rows)) |->
     [c \in Indices(Len(rows[r + 1])) |-> MkCell(rows[r + 1][c + 1], TRUE)]]

MatrixOf(rows) ==
  [r \in Indices(Len(rows)) |->
     [c \in Indices(Len(rows[r + 1])) |-> rows[r + 1][c + 1]]]

\* the solved 3x3 grid of the scenario, with the operations the scenario gives
ScenarioPuzzle ==
  LET grid == GridOf(<< <<2, 3, 5>>, <<4, 1, 3>>, <<6, 2, 8>> >>)
  IN [grid |-> grid,
      operations |->
        [horizontal |-> MatrixOf(<< <<Plus>>, <<Minus>> >>),
         vertical |-> MatrixOf(<< <<Plus>>, <<Minus>>, <<Plus>> >>)],
      size |-> 3,
      difficulty |-> 1,
      solution |-> [r \in DOMAIN grid |->
                      [c \in DOMAIN grid[r] |-> grid[r][c].value]]]

\* cell.value = null; cell.isFixed = false, for every cell of blanks
Blanked(completedPuzzle, blanks) ==
  [completedPuzzle EXCEPT !.grid =
     [r \in DOMAIN completedPuzzle.grid |->
        [c \in DOMAIN completedPuzzle.grid[r] |->
           IF <<r, c>> \in blanks THEN MkCell(Null, FALSE)
           ELSE completedPuzzle.grid[r][c]]]]

\* countSolutions is called on completed grids with at most MaxBlanks blanks,
\* the grids without a blank included
MaxBlanks == 2

CountedConstraints ==
  {MkConstraints(2, <<Divide>>, <<1, 2>>, 5),
   MkConstraints(2, <<Plus, Divide>>, <<1, 2>>, 3),
   MkConstraints(3, <<Divide>>, <<2, 2>>, 4)}

CountInputs ==
  {Blanked(ScenarioPuzzle, {<<1, 1>>})}
  \cup UNION {{Blanked(completedGrid, blanks) :
                 completedGrid \in CompletedGrids(c),
                 blanks \in {b \in SUBSET Cells(c.gridSize) :
                               Cardinality(b) \in 0 .. MaxBlanks}} :
              c \in CountedConstraints}

NoConstraints == MkConstraints(0, << >>, <<0, 0>>, 0)

InitCount ==
  /\ pc = "count"
  /\ puzzle \in CountInputs
  /\ constraints = NoConstraints
  /\ outcomes = {}
  /\ attempts = 0
  /\ untried = {}
  /\ removed = 0
  /\ result = NoPuzzle
  /\ line = NoLine
  /\ answer = NoAnswer
  /\ NoSession

\* answer.count = this.countSolutions(puzzle)
CountSolutions ==
  /\ pc = "count"
  /\ \E run \in {runCountSolutions(puzzle)} :
       /\ answer' = [answer EXCEPT !.count = run.count]
       /\ puzzle' = [puzzle EXCEPT !.grid = run.grid]
  /\ pc' = "counted"
  /\ UNCHANGED <<constraints, outcomes, attempts, untried, removed, result, line>>
  /\ UNCHANGED sessionVars

\* answer.again = this.countSolutions(puzzle), on the state the first run left
CountAgain ==
  /\ pc = "counted"
  /\ \E run \in {runCountSolutions(puzzle)} :
       /\ answer' = [answer EXCEPT !.again = run.count]
       /\ puzzle' = [puzzle EXCEPT !.grid = run.grid]
  /\ pc' = "recounted"
  /\ UNCHANGED <<constraints, outcomes, attempts, untried, removed, result, line>>
  /\ UNCHANGED sessionVars

NextCount == CountSolutions \/ CountAgain

SpecCount == InitCount /\ [][NextCount]_vars

\* ------------------------------------------------------------------------
\* The two equation evaluators on the same line
\* ------------------------------------------------------------------------
MaxLineLength == 3
MaxLineValue == 3

\* fully filled lines of 2 .. MaxLineLength cells, one operation between two
\* neighbouring cells
LineInputs ==
  UNION {{[cells |-> [i \in Indices(n) |-> MkCell(values[i], TRUE)],
           operations |-> operations] :
            values \in [Indices(n) -> 1 .. MaxLineValue],
            operations \in [Indices(n - 1) -> Operation]} :
         n \in 2 .. MaxLineLength}

InitValidate ==
  /\ pc = "validate"
  /\ line \in LineInputs
  /\ constraints = NoConstraints
  /\ outcomes = {}
  /\ attempts = 0
  /\ puzzle = NoPuzzle
  /\ untried = {}
  /\ removed = 0
  /\ result = NoPuzzle
  /\ answer = NoAnswer
  /\ NoSession

\* the verdict of isEquationValid and the verdict of validateEquation
ValidateLine ==
  /\ pc = "validate"
  /\ answer' = [answer EXCEPT
                  !.generator = isEquationValid(line.cells, line.operations),
                  !.grid = validateEquation(line.cells, line.operations)]
  /\ pc' = "validated"
  /\ UNCHANGED <<constraints, outcomes, attempts, puzzle, untried, removed,
                 result, line>>
  /\ UNCHANGED sessionVars

NextValidate == ValidateLine

SpecValidate == InitValidate /\ [][NextValidate]_vars

\* ------------------------------------------------------------------------
\* Assignments of the blank cells
\* ------------------------------------------------------------------------
BlankCells(p) ==
  {cell \in Cells(p.size) : p.grid[cell[1]][cell[2]].value = Null}

\* the grid of p with the blank cells filled as the assignment says
Filled(p, assignment) ==
  [r \in DOMAIN p.grid |->
     [c \in DOMAIN p.grid[r] |->
        IF <<r, c>> \in DOMAIN assignment
        THEN [p.grid[r][c] EXCEPT !.value = assignment[<<r, c>>]]
        ELSE p.grid[r][c]]]

\* every row and every column that has operations evaluates left to right
\* with no division remainder
LinesExact(grid, operations) ==
  /\ \A r \in DOMAIN operations.horizontal :
       isEquationValid(grid[r], operations.horizontal[r])
  /\ \A c \in DOMAIN operations.vertical :
       isEquationValid(Column(grid, c), operations.vertical[c])

\* a row or column without a blank that does not evaluate exactly: it is the
\* same under every assignment
HasInexactFilledLine(p) ==
  \/ \E r \in DOMAIN p.operations.horizontal :
       /\ isRowComplete(p.grid[r])
       /\ ~isEquationValid(p.grid[r], p.operations.horizontal[r])
  \/ \E c \in DOMAIN p.operations.vertical :
       /\ isRowComplete(Column(p.grid, c))
       /\ ~isEquationValid(Column(p.grid, c), p.operations.vertical[c])

\* the number of assignments of 1 .. 20 to the blank cells of p under which
\* all rows and all columns evaluate exactly
ExactAssignments(p) ==
  IF HasInexactFilledLine(p) THEN 0
  ELSE Cardinality({assignment \in [BlankCells(p) -> 1 .. CandidateMax] :
                      LinesExact(Filled(p, assignment), p.operations)})

Min2(n) == IF n < 2 THEN n ELSE 2

\* the same number capped at 2, by a search that gives up a partial assignment
\* as soon as a row or a column it has filled does not evaluate exactly
RECURSIVE CompletionsFrom(_, _, _)
RECURSIVE CompletionsWith(_, _, _, _, _)
CompletionsFrom(p, grid, found) ==
  LET here == [p EXCEPT !.grid = grid]
  IN IF found >= 2 THEN 2
     ELSE IF HasInexactFilledLine(here) THEN found
     ELSE IF BlankCells(here) = {} THEN found + 1
     ELSE CompletionsWith(p, grid, findEmptyCells(here)[1], 1, found)

CompletionsWith(p, grid, cell, value, found) ==
  IF value > CandidateMax \/ found >= 2 THEN found
  ELSE CompletionsWith(p, grid, cell, value + 1,
                       CompletionsFrom(p, SetValue(grid, cell, value), found))

ExactAssignmentsUpTo2(p) == CompletionsFrom(p, p.grid, 0)

\* the solution matrix as a grid of filled cells
SolvedGrid(p) ==
  [r \in DOMAIN p.solution |->
     [c \in DOMAIN p.solution[r] |-> MkCell(p.solution[r][c], TRUE)]]

\* ------------------------------------------------------------------------
\* Properties of generate
\* ------------------------------------------------------------------------
\* C1: a puzzle returned by generate has exactly one assignment of integers
\* of 1 .. 20 to its blank cells under which every row and every column, the
\* lines without a blank included, evaluates with no division remainder.
C1_UniqueAssignment ==
  pc = "returned" => ExactAssignmentsUpTo2(result) = 1

\* C2: every row and every column of the solution of a returned puzzle
\* evaluates left to right with no division remainder, that is, an attempt
\* whose completed grid has an inexact line is never returned.
C2_SolutionLinesExact ==
  pc = "returned" => LinesExact(SolvedGrid(result), result.operations)

\* C3: generatePuzzle(1) does not end with the exhaustion error, and the
\* puzzle it returns has size 3, operations + and - only, and solution values
\* in 1 .. 10.
C3_FactoryReturns ==
  /\ pc # "failed"
  /\ pc = "returned" =>
       /\ result.size = 3
       /\ \A r \in DOMAIN result.operations.horizontal :
            \A i \in DOMAIN result.operations.horizontal[r] :
              result.operations.horizontal[r][i] \in {Plus, Minus}
       /\ \A c \in DOMAIN result.operations.vertical :
            \A i \in DOMAIN result.operations.vertical[c] :
              result.operations.vertical[c][i] \in {Plus, Minus}
       /\ \A r \in DOMAIN result.solution :
            \A c \in DOMAIN result.solution[r] :
              result.solution[r][c] \in 1 .. 10

\* C4: countSolutions run on the blanked puzzle generate returned yields
\* exactly 1.
C4_ReturnedCountIsOne ==
  pc = "returned" => countSolutions(result) = 1

\* a returned puzzle that has blank cells
C4_Witness ==
  pc = "returned" /\ BlankCells(result) # {}

\* C5: every call of generate terminates; a puzzle is returned by one of at
\* most 1000 attempts, the exhaustion error is thrown after exactly 1000
\* rejected attempts, no attempt runs after the 1000th and nothing happens
\* after the return or the throw.
C5_Terminates ==
  /\ [](/\ pc = "returned" => attempts \in 1 .. MAX_ATTEMPTS
        /\ pc = "failed" => attempts = MAX_ATTEMPTS + 1 /\ result = NoPuzzle
        /\ pc = "loop" => attempts \in 0 .. MAX_ATTEMPTS /\ result = NoPuzzle)
  /\ [][/\ pc = "loop"
        /\ pc' # "failed" => attempts' \in 1 .. MAX_ATTEMPTS
        /\ pc' = "failed" => attempts = MAX_ATTEMPTS]_vars
  /\ <>(pc \in {"returned", "failed"})

\* the last attempt of the budget returns a puzzle
C5_Witness ==
  pc = "returned" /\ attempts = MAX_ATTEMPTS

\* gridSize < 2, or an empty set of allowed operations
Malformed(c) == c.gridSize < 2 \/ Len(c.operations) = 0

\* C6: a call of generate with malformed constraints fails before any
\* synthesis step runs and returns no puzzle.
C6_MalformedFailsFast ==
  Malformed(constraints) => attempts = 0 /\ pc # "returned" /\ result = NoPuzzle

\* ------------------------------------------------------------------------
\* Properties of countSolutions and of the equation evaluators
\* ------------------------------------------------------------------------
\* C7: on a puzzle with at least one blank cell countSolutions returns
\* min(2, N), N the number of assignments of 1 .. 20 to the blank cells under
\* which all rows and all columns evaluate exactly.
C7_CountIsCappedN ==
  pc = "counted" /\ BlankCells(puzzle) # {} =>
    answer.count = Min2(ExactAssignments(puzzle))

\* C8: on the grid [[2,3,5],[4,1,3],[6,2,8]] of the scenario with cell (1,1)
\* blanked countSolutions returns 1.
C8_ScenarioCountIsOne ==
  pc = "counted" /\ puzzle = Blanked(ScenarioPuzzle, {<<1, 1>>}) =>
    answer.count = 1

\* C9: on every fully filled line and every sequence of operations
\* validateEquation of PuzzleGrid returns the verdict of isEquationValid.
C9_SameVerdict ==
  pc = "validated" => answer.grid = answer.generator

\* ------------------------------------------------------------------------
\* Fixed cells
\* ------------------------------------------------------------------------
\* a cell is fixed if and only if its value is not null, and the value of a
\* fixed cell is the solution value of its position
FixedAsSolved(p) ==
  \A cell \in Cells(p.size) :
    LET c == p.grid[cell[1]][cell[2]]
    IN /\ c.isFixed <=> c.value # Null
       /\ c.isFixed => c.value = p.solution[cell[1]][cell[2]]

\* C10: in the completed grid of the synthesizer, in every state of the cell
\* remover between two candidates and in the returned puzzle, a cell is fixed
\* if and only if its value is not null and a fixed cell holds its solution
\* value; every cell of the completed grid is fixed.
C10_FixedIffFilled ==
  /\ pc \in {"remove", "verify", "check"} => FixedAsSolved(puzzle)
  /\ pc = "returned" => FixedAsSolved(result)
  /\ pc = "remove" /\ untried = Cells(constraints.gridSize) =>
       \A cell \in Cells(puzzle.size) : puzzle.grid[cell[1]][cell[2]].isFixed

\* the remover has kept one blank and has restored another candidate
C10_Witness ==
  /\ pc = "remove"
  /\ removed >= 1
  /\ Cardinality(Cells(constraints.gridSize)) - Cardinality(untried) > removed
  /\ \E cell \in Cells(puzzle.size) : ~puzzle.grid[cell[1]][cell[2]].isFixed

\* ------------------------------------------------------------------------
\* Properties of the constraint checker
\* ------------------------------------------------------------------------
\* the score 3 * blanks / size^2 + 2 * meanOperationWeight + 1.5 * (size - 3) / 3
\* as the fraction num / den; it is a number only if the puzzle has cells and
\* every operation slot holds one of the four operations.  The mean weight
\* of a puzzle without operation slots is taken as 1.
ScoreIsNumber(p) ==
  /\ p.size > 0
  /\ OperationCount(p, Undefined) = 0

ScoreSlots(p) == IF OperationTotal(p) = 0 THEN 1 ELSE OperationTotal(p)

\* twice the total weight of the slots
ScoreWeight2(p) ==
  IF OperationTotal(p) = 0 THEN 2
  ELSE Weight2InRows(p.operations.horizontal, 0, 0)
       + Weight2InRows(p.operations.vertical, 0, 0)

ScoreDen(p) == 2 * p.size * p.size * ScoreSlots(p)

ScoreNum(p) ==
  6 * Cardinality(BlankCells(p)) * ScoreSlots(p)
  + 2 * p.size * p.size * ScoreWeight2(p)
  + (p.size - 3) * p.size * p.size * ScoreSlots(p)

ClampedScoreNum(p) ==
  IF ScoreNum(p) < ScoreDen(p) THEN ScoreDen(p)
  ELSE IF ScoreNum(p) > 5 * ScoreDen(p) THEN 5 * ScoreDen(p)
  ELSE ScoreNum(p)

\* C11: the clamped difficulty score of a puzzle returned by generate differs
\* from the requested difficulty by at most 1.
C11_DifficultyWithinOne ==
  pc = "returned" =>
    /\ ScoreIsNumber(result)
    /\ Abs(ClampedScoreNum(result) - constraints.difficulty * ScoreDen(result))
         <= ScoreDen(result)

\* C12: in a puzzle returned for at least 2 allowed operations no operation
\* holds more than 60% of the horizontal and vertical operation slots; for
\* at most 1 allowed operation the balance check lets every puzzle pass.
C12_OperationsBalanced ==
  /\ pc = "returned" /\ Len(constraints.operations) >= 2 =>
       \A op \in AnySlot :
         5 * OperationCount(result, op) <= 3 * OperationTotal(result)
  /\ pc = "returned" /\ Len(constraints.operations) <= 1 =>
       isOperationBalanced(result, constraints.operations)

\* a puzzle with operation slots returned for two allowed operations
C12_Witness ==
  /\ pc = "returned"
  /\ Len(constraints.operations) >= 2
  /\ OperationTotal(result) > 0

\* ------------------------------------------------------------------------
\* Properties of a run of countSolutions
\* ------------------------------------------------------------------------
\* C13: a run of countSolutions leaves the value and the fixed flag of every
\* cell as they were before the run, and a second run on the same puzzle
\* returns the count of the first.
C13_CountIdempotent ==
  [][(pc = "count" \/ pc = "counted") =>
       (puzzle' = puzzle /\ (pc = "counted" => answer'.again = answer.count))]_vars

\* two runs on a puzzle with blanks whose search stops at the second solution
C13_Witness ==
  /\ pc = "recounted"
  /\ BlankCells(puzzle) # {}
  /\ answer.count = 2
  /\ answer.again = 2

\* C20: countSolutions returns 0, 1 or 2, and 1 for a puzzle without blank
\* cells.
C20_CountInRange ==
  pc \in {"counted", "recounted"} =>
    /\ answer.count \in {0, 1, 2}
    /\ BlankCells(puzzle) = {} => answer.count = 1

\* a run that stopped at 2 on a puzzle with more than 2 exact assignments
C20_Witness ==
  /\ pc = "counted"
  /\ answer.count = 2
  /\ ExactAssignments(puzzle) > 2

\* ------------------------------------------------------------------------
\* Properties of generatePuzzle
\* ------------------------------------------------------------------------
\* the operations that occur in the operation matrices of p
OperationsOf(p) ==
  {p.operations.horizontal[r][i] :
     r \in DOMAIN p.operations.horizontal, i \in Indices(p.size - 1)}
  \cup {p.operations.vertical[c][i] :
          c \in DOMAIN p.operations.vertical, i \in Indices(p.size - 1)}

\* C14: generatePuzzle(d) calls generate with grid size 3 for d <= 2, 4 for
\* d in {3, 4}, 5 for d = 5; operations {+,-} for d = 1, {+,-,x} for d = 2,
\* all four for d >= 3; number range [1,10] for d <= 2, [1,20] for d in
\* {3, 4}, [1,30] for d = 5; the size, the difficulty and the operations of
\* the returned puzzle agree with these.
C14_ConstraintsFromDifficulty ==
  LET d == constraints.difficulty
      size == CASE d \in {1, 2} -> 3 [] d \in {3, 4} -> 4 [] d = 5 -> 5
      allowed == CASE d = 1 -> {Plus, Minus}
                   [] d = 2 -> {Plus, Minus, Times}
                   [] d \in {3, 4, 5} -> {Plus, Minus, Times, Divide}
      range == CASE d \in {1, 2} -> <<1, 10>>
                 [] d \in {3, 4} -> <<1, 20>>
                 [] d = 5 -> <<1, 30>>
  IN /\ d \in Difficulties
     /\ constraints.gridSize = size
     /\ {constraints.operations[k] : k \in 1 .. Len(constraints.operations)}
          = allowed
     /\ constraints.numberRange = range
     /\ pc = "returned" =>
          /\ result.size = size
          /\ result.difficulty = d
          /\ OperationsOf(result) \subseteq allowed

\* generatePuzzle(5) has returned a puzzle with multiplications
C14_Witness ==
  /\ pc = "returned"
  /\ constraints.difficulty = 5
  /\ result.size = 5
  /\ Times \in OperationsOf(result)

\* ------------------------------------------------------------------------
\* Properties of the cell remover
\* ------------------------------------------------------------------------
\* C17: when the count for a blanked candidate is not 1, the remover writes
\* the candidate's value back and marks it fixed, leaves the counter removed
\* as it was, leaves the cells blanked before blank, and goes on with the loop.
C17_RejectedCandidateRestored ==
  [][pc = "remove" =>
       \A cell \in untried \ untried' :
          countSolutions(Blanked(puzzle, {cell})) # 1 =>
            /\ puzzle.grid[cell[1]][cell[2]].value # Null
            /\ puzzle'.grid[cell[1]][cell[2]]
                 = MkCell(puzzle.grid[cell[1]][cell[2]].value, TRUE)
            /\ removed' = removed
            /\ BlankCells(puzzle') = BlankCells(puzzle)
            /\ pc' = "remove"]_vars

\* a cell has been blanked, a candidate has been rejected, and cells are left
\* to try
C17_Witness ==
  /\ pc = "remove"
  /\ removed >= 1
  /\ Cardinality(untried) + removed < constraints.gridSize * constraints.gridSize
  /\ untried # {}
  /\ Cardinality(BlankCells(puzzle)) = removed

\* the number of cells the remover may blank, as the specification states it
RemovalTarget ==
  (constraints.gridSize * constraints.gridSize * (3 + constraints.difficulty))
    \div 10

\* the cells whose value or fixed flag a step changes
ChangedCells ==
  {cell \in Cells(constraints.gridSize) :
     puzzle'.grid[cell[1]][cell[2]] # puzzle.grid[cell[1]][cell[2]]}

\* C18: the remover blanks at most floor(size^2 * (3 + difficulty) / 10)
\* cells; it visits each cell at most once; it stops as soon as the target is
\* reached; when it ends below the target it has tried every cell.
C18_RemovalBounded ==
  [][/\ pc' \in {"remove", "verify", "check", "returned"} =>
          Cardinality(BlankCells(puzzle')) <= RemovalTarget
     /\ (pc = "remove" /\ pc' = "remove") =>
          /\ Cardinality(untried \ untried') = 1
          /\ untried' \subseteq untried
          /\ ChangedCells \subseteq untried \ untried'
     /\ (pc = "remove" /\ Cardinality(BlankCells(puzzle)) >= RemovalTarget) =>
          (pc' = "verify" /\ puzzle' = puzzle)
     /\ (pc = "remove" /\ pc' = "verify"
           /\ Cardinality(BlankCells(puzzle)) < RemovalTarget) =>
          untried = {}]_vars

\* the remover has stopped at the target with cells left untried
C18_Witness ==
  /\ pc = "verify"
  /\ Cardinality(BlankCells(puzzle)) = RemovalTarget
  /\ RemovalTarget >= 1
  /\ untried # {}

\* ------------------------------------------------------------------------
\* The synthesizer alone: createValidCompletedGrid on drawn values and
\* operations
\* ------------------------------------------------------------------------
\* the constraints whose completed grids are looked at
SynthesizerInputs ==
  {MkConstraints(2, <<Plus, Minus, Times, Divide>>, <<1, 2>>, 3),
   MkConstraints(3, <<Plus, Times>>, <<2, 2>>, 2),
   MkConstraints(3, <<Minus, Divide>>, <<1, 1>>, 3)}

InitSynthesize ==
  /\ pc = "synthesize"
  /\ constraints \in SynthesizerInputs
  /\ outcomes = {}
  /\ attempts = 0
  /\ puzzle = NoPuzzle
  /\ untried = {}
  /\ removed = 0
  /\ result = NoPuzzle
  /\ line = NoLine
  /\ answer = NoAnswer
  /\ NoSession

\* const completedGrid = this.createValidCompletedGrid(constraints)
CreateCompletedGrid ==
  /\ pc = "synthesize"
  /\ \E completedGrid \in CompletedGrids(constraints) :
       puzzle' = completedGrid
  /\ pc' = "completed"
  /\ UNCHANGED <<constraints, outcomes, attempts, untried, removed, result>>
  /\ UNCHANGED <<line, answer>>
  /\ UNCHANGED sessionVars

NextSynthesize == CreateCompletedGrid

SpecSynthesize == InitSynthesize /\ [][NextSynthesize]_vars

\* C19: after the adjustment of the rows and then of the columns every cell
\* value of the grid, and every entry of solution, is a finite integer >= 1,
\* also when the result accumulated along a line is 0.
C19_ValuesFinitePositive ==
  pc = "completed" =>
    \A cell \in Cells(puzzle.size) :
       /\ IsFinite(puzzle.grid[cell[1]][cell[2]].value)
       /\ puzzle.grid[cell[1]][cell[2]].value >= 1
       /\ puzzle.solution[cell[1]][cell[2]]
            = puzzle.grid[cell[1]][cell[2]].value

\* ------------------------------------------------------------------------
\* The player session: the store operations and the inputs of PuzzleGrid on
\* puzzles generate returned
\* ------------------------------------------------------------------------
\* the constraints of the puzzles handed to the session
SessionInputs == {MkConstraints(2, <<Plus, Divide>>, <<1, 2>>, 3)}

\* the numbers of the pad that are entered
MaxEntered == 2

EnteredValues == 1 .. MaxEntered

InitSession ==
  /\ pc = "session"
  /\ constraints \in SessionInputs
  /\ outcomes = Outcomes(constraints)
  /\ attempts = 0
  /\ puzzle = NoPuzzle
  /\ untried = {}
  /\ removed = 0
  /\ result = NoPuzzle
  /\ line = NoLine
  /\ answer = NoAnswer
  /\ NoSession

\* useGameStore.setCurrentPuzzle(puzzle) with a puzzle generate returned; the
\* App renders PuzzleGrid with the key puzzle.id, so that it is mounted anew:
\* useState(puzzle.grid), useState(null)
SetCurrentPuzzle ==
  /\ pc = "session"
  /\ \E outcome \in outcomes :
       /\ outcome.returned
       /\ store' = setCurrentPuzzle(store, outcome.puzzle)
       /\ gridState' = outcome.puzzle.grid
  /\ selectedCell' = NoCell
  /\ UNCHANGED <<pc, constraints, outcomes, attempts, puzzle, untried, removed,
                 result, line, answer, app, factory>>
  /\ UNCHANGED componentVars

\* useGameStore.updateCellValue(row, col, value), for the positions of the
\* grid and one position outside it
UpdateCellValue ==
  /\ pc = "session"
  /\ \E row \in 0 .. constraints.gridSize, col \in 0 .. constraints.gridSize,
        value \in EnteredValues \cup {Null} :
       store' = updateCellValue(store, row, col, value)
  /\ UNCHANGED <<pc, constraints, outcomes, attempts, puzzle, untried, removed,
                 result, line, answer, gridState, selectedCell, app, factory>>
  /\ UNCHANGED componentVars

\* handleCellClick(row, col)
CellClick ==
  /\ pc = "session"
  /\ store.currentPuzzle # NoPuzzle
  /\ \E cell \in Cells(store.currentPuzzle.size) :
       selectedCell' = IF gridState[cell[1]][cell[2]].isFixed THEN selectedCell
                       ELSE cell
  /\ UNCHANGED <<pc, constraints, outcomes, attempts, puzzle, untried, removed,
                 result, line, answer, store, gridState, app, factory>>
  /\ UNCHANGED componentVars

\* handleCellValueChange(row, col, value): setGridState(newGrid); the App
\* passes no onCellChange
handleCellValueChange(grid, row, col, value) == WithValue(grid, row, col, value)

\* a key of the number pad: handleNumberInput(num)
NumberInput ==
  /\ pc = "session"
  /\ store.currentPuzzle # NoPuzzle
  /\ \E num \in EnteredValues :
       gridState' =
         IF selectedCell = NoCell THEN gridState
         ELSE IF gridState[selectedCell[1]][selectedCell[2]].isFixed
         THEN gridState
         ELSE handleCellValueChange(gridState, selectedCell[1],
                                    selectedCell[2], num)
  /\ UNCHANGED <<pc, constraints, outcomes, attempts, puzzle, untried, removed,
                 result, line, answer, store, selectedCell, app, factory>>
  /\ UNCHANGED componentVars

\* the clear button: handleClear()
ClearCell ==
  /\ pc = "session"
  /\ store.currentPuzzle # NoPuzzle
  /\ gridState' =
       IF selectedCell = NoCell THEN gridState
       ELSE IF gridState[selectedCell[1]][selectedCell[2]].isFixed
       THEN gridState
       ELSE handleCellValueChange(gridState, selectedCell[1],
                                  selectedCell[2], Null)
  /\ UNCHANGED <<pc, constraints, outcomes, attempts, puzzle, untried, removed,
                 result, line, answer, store, selectedCell, app, factory>>
  /\ UNCHANGED componentVars

NextSession ==
  SetCurrentPuzzle \/ UpdateCellValue \/ CellClick \/ NumberInput \/ ClearCell

SpecSession == InitSession /\ [][NextSession]_vars

\* the puzzles generate returned for the constraints of the session
HandedPuzzles == {outcome.puzzle : outcome \in {o \in outcomes : o.returned}}

\* the positions at which two grids of the same shape hold different cells
DifferingCells(before, after) ==
  {cell \in Cells(Length(before)) :
     after[cell[1]][cell[2]] # before[cell[1]][cell[2]]}

\* C15: once a puzzle is handed to the session, setCurrentPuzzle,
\* updateCellValue and the cell value changes and clears of PuzzleGrid leave
\* the grid, the solution and the operation matrices of the puzzle as they
\* are; updateCellValue changes only the value of the addressed cell of
\* puzzleState and no other cell and no other field of the store.
C15_PuzzleNeverChanged ==
  [][pc = "session" =>
       /\ store'.currentPuzzle # store.currentPuzzle =>
            /\ store'.currentPuzzle \in HandedPuzzles
            /\ store'.gameState.puzzleState = store'.currentPuzzle.grid
       /\ store'.gameState.currentPuzzle = store'.currentPuzzle
       /\ (store' # store /\ store'.currentPuzzle = store.currentPuzzle) =>
            \/ store'.gameState.puzzleState = store'.currentPuzzle.grid
            \/ \E cell \in Cells(store.currentPuzzle.size) :
                  /\ DifferingCells(store.gameState.puzzleState,
                                    store'.gameState.puzzleState) = {cell}
                  /\ store'.gameState.puzzleState[cell[1]][cell[2]].isFixed
                       = store.gameState.puzzleState[cell[1]][cell[2]].isFixed
                  /\ store' = [store EXCEPT !.gameState.puzzleState =
                                               store'.gameState.puzzleState]]_vars

\* a puzzle is handed over, puzzleState holds an entered value in a blank
\* cell and a changed fixed cell, and the grid of PuzzleGrid holds an entry
C15_Witness ==
  /\ pc = "session"
  /\ store.currentPuzzle # NoPuzzle
  /\ \E cell \in BlankCells(store.currentPuzzle) :
       store.gameState.puzzleState[cell[1]][cell[2]].value # Null
  /\ \E cell \in Cells(store.currentPuzzle.size) \ BlankCells(store.currentPuzzle) :
       store.gameState.puzzleState[cell[1]][cell[2]].value
         # store.currentPuzzle.grid[cell[1]][cell[2]].value
  /\ \E cell \in BlankCells(store.currentPuzzle) :
       gridState[cell[1]][cell[2]].value # Null

\* ------------------------------------------------------------------------
\* The App: the chains of calls of startNewPuzzle
\* ------------------------------------------------------------------------
\* the seconds a completion can report
CompletionTimes == {0, 120, 301}

\* The store is hydrated and holds a profile and no puzzle, and
\* startNewPuzzle(difficulty) is called.  The effect that makes the first
\* call passes 1; every difficulty of the parameter's type is started with.
InitApp ==
  /\ pc = "call"
  /\ constraints = NoConstraints
  /\ outcomes = {}
  /\ attempts = 0
  /\ puzzle = NoPuzzle
  /\ untried = {}
  /\ removed = 0
  /\ result = NoPuzzle
  /\ line = NoLine
  /\ answer = NoAnswer
  /\ store = [InitialStore EXCEPT !.hasHydrated = TRUE,
                                  !.userProfile = "profile"]
  /\ gridState = << >>
  /\ selectedCell = NoCell
  /\ hints = InitialHints
  /\ played = InitialPlay
  /\ factory = [d \in Difficulties |->
                  generateResults(Outcomes(generatePuzzleConstraints(d)))]
  /\ \E difficulty \in Difficulties :
       app = [NoCall EXCEPT !.difficulty = difficulty, !.first = difficulty]

\* one call startNewPuzzle(difficulty): generatePuzzle(difficulty) returns and
\* setCurrentPuzzle(puzzle) mounts a new PuzzleGrid, or it throws and the
\* catch block calls startNewPuzzle(difficulty - 1) if difficulty > 1
StartNewPuzzle ==
  /\ pc = "call"
  /\ \E generated \in factory[app.difficulty] :
       IF ~generated.thrown
       THEN /\ store' = setCurrentPuzzle(store, generated.puzzle)
            /\ gridState' = generated.puzzle.grid
            /\ selectedCell' = NoCell
            /\ app' = [app EXCEPT !.calls = app.calls + 1, !.completed = FALSE]
            /\ pc' = "idle"
       ELSE IF shouldRetry(app.difficulty)
       THEN /\ app' = [app EXCEPT !.calls = app.calls + 1,
                                  !.difficulty = app.difficulty - 1]
            /\ pc' = "call"
            /\ UNCHANGED <<store, gridState, selectedCell>>
       ELSE /\ app' = [app EXCEPT !.calls = app.calls + 1, !.failed = TRUE]
            /\ pc' = "idle"
            /\ UNCHANGED <<store, gridState, selectedCell>>
  /\ UNCHANGED <<constraints, outcomes, attempts, puzzle, untried, removed,
                 result, line, answer, factory>>
  /\ UNCHANGED componentVars

\* the completion effect of PuzzleGrid calls onComplete once, and the timer
\* of handlePuzzleComplete calls startNewPuzzle(nextDifficulty); no entry was
\* wrong
PuzzleCompleted ==
  /\ pc = "idle"
  /\ store.currentPuzzle # NoPuzzle
  /\ ~app.completed
  /\ \A cell \in Cells(store.currentPuzzle.size) :
       gridState[cell[1]][cell[2]].value # Null
  /\ validateAllEquations(gridState, store.currentPuzzle)
  /\ \E timeSeconds \in CompletionTimes :
       \E nextDifficulty \in
            {calculateNextDifficulty(0, timeSeconds,
                                     store.currentPuzzle.difficulty)} :
          app' = [difficulty |-> nextDifficulty, first |-> nextDifficulty,
                  calls |-> 0, failed |-> FALSE, completed |-> TRUE]
  /\ pc' = "call"
  /\ UNCHANGED <<constraints, outcomes, attempts, puzzle, untried, removed,
                 result, line, answer, store, gridState, selectedCell,
                 factory>>
  /\ UNCHANGED componentVars

NextApp == StartNewPuzzle \/ PuzzleCompleted

SpecApp == InitApp /\ [][NextApp]_vars

\* the puzzles generatePuzzle(d) can return
GeneratedPuzzles(d) ==
  {generated.puzzle : generated \in {g \in factory[d] : ~g.thrown}}

\* C16: a call of startNewPuzzle(d) whose generation fails is followed by a
\* call at d - 1 if d > 1; the chain ends at the first success, which sets
\* the current puzzle, or with the failure at difficulty 1, after which no
\* call is made and the current puzzle is as it was; a chain started at d
\* makes at most d calls of generatePuzzle.
C16_FallbackChain ==
  [][/\ pc = "call" =>
          /\ app'.calls = app.calls + 1
          /\ app'.calls <= app.first
          /\ \/ /\ pc' = "idle"
                /\ ~app'.failed
                /\ store'.currentPuzzle \in GeneratedPuzzles(app.difficulty)
                /\ app'.difficulty = app.difficulty
             \/ /\ app.difficulty > 1
                /\ pc' = "call"
                /\ app'.difficulty = app.difficulty - 1
                /\ store' = store
             \/ /\ app.difficulty = 1
                /\ pc' = "idle"
                /\ app'.failed
                /\ store' = store
     /\ (pc = "idle" /\ app.failed) => (pc' = "idle" /\ store' = store)]_vars

\* a chain that fell back has ended with a puzzle of a lower difficulty than
\* the one it was started with
C16_Witness ==
  /\ pc = "idle"
  /\ ~app.failed
  /\ app.calls >= 2
  /\ store.currentPuzzle.difficulty = app.difficulty
  /\ app.difficulty < app.first

\* ------------------------------------------------------------------------
\* Properties of the loop of generate
\* ------------------------------------------------------------------------
\* C21: inside generate a rejected attempt and an attempt that throws are
\* silent: each takes exactly one attempt of the budget and leaves nothing
\* behind for the next pass, which starts from the constraints alone; the
\* only error that reaches the caller is the one thrown when the budget is
\* used up.
C21_RetriesAreSilent ==
  /\ [](pc = "loop" =>
          /\ puzzle = NoPuzzle
          /\ result = NoPuzzle
          /\ untried = {}
          /\ removed = 0)
  /\ [][pc = "loop" =>
          /\ attempts' = attempts + 1
          /\ outcomes' = outcomes
          /\ constraints' = constraints
          /\ pc' = "failed" => attempts = MAX_ATTEMPTS
          /\ attempts < MAX_ATTEMPTS => pc' \in {"loop", "returned"}]_vars

\* the exception of an attempt has been swallowed and the next attempt has
\* thrown as well
C21_Witness ==
  /\ pc = "loop"
  /\ AttemptThrows(constraints)
  /\ attempts = 2

\* ------------------------------------------------------------------------
\* The assignment countSolutions counts
\* ------------------------------------------------------------------------
\* the assignments the search of countSolutions reaches index =
\* emptyCells.length with, were it to run without the early exit; for a
\* puzzle whose count is 1 the search never takes the early exit
RECURSIVE CountedFrom(_, _, _, _, _)
CountedFrom(p, grid, emptyCells, index, assignment) ==
  IF index = Len(emptyCells) THEN {assignment}
  ELSE LET cell == emptyCells[index + 1]
       IN UNION {IF isValidPlacement([p EXCEPT !.grid = grid], cell, value).ok
                 THEN CountedFrom(p, SetValue(grid, cell, value), emptyCells,
                                  index + 1, assignment @@ (cell :> value))
                 ELSE {} : value \in 1 .. CandidateMax}

CountedAssignments(p) ==
  CountedFrom(p, p.grid, findEmptyCells(p), 0, << >>)

\* C24: in a puzzle returned by generate the solution value of every blank
\* cell lies in 1 .. 20, and the one assignment countSolutions counts gives
\* every blank cell its solution value.
C24_CountedIsSolution ==
  pc = "returned" =>
    \A cell \in BlankCells(result) :
       /\ result.solution[cell[1]][cell[2]] \in 1 .. CandidateMax
       /\ \A assignment \in CountedAssignments(result) :
            assignment[cell] = result.solution[cell[1]][cell[2]]

\* ------------------------------------------------------------------------
\* Operation matrices without a division
\* ------------------------------------------------------------------------
DivisionFree(operations) ==
  /\ \A r \in DOMAIN operations.horizontal :
       \A i \in DOMAIN operations.horizontal[r] :
          operations.horizontal[r][i] # Divide
  /\ \A c \in DOMAIN operations.vertical :
       \A i \in DOMAIN operations.vertical[c] :
          operations.vertical[c][i] # Divide

C26_RemoverResultUnique ==
  /\ [](pc = "verify" => countSolutions(puzzle) = 1)
  /\ [][pc = "verify" => pc' = "check"]_vars

\* the remover has blanked a cell and restored another, and the attempt has
\* passed the test of the count
C26_Witness ==
  /\ pc = "check"
  /\ removed >= 1
  /\ Cardinality(Cells(puzzle.size) \ untried) > removed

\* ------------------------------------------------------------------------
\* HintSystem
\* ------------------------------------------------------------------------
\* the cells generateHint collects: value null and not fixed, in row-major
\* order
HintEmptyCells(currentGrid) ==
  LET n == Length(currentGrid)
      RECURSIVE Collect(_)
      Collect(k) ==
        IF k >= n * n THEN << >>
        ELSE IF currentGrid[k \div n][k % n].value = Null
                /\ ~currentGrid[k \div n][k % n].isFixed
        THEN << <<k \div n, k % n>> >> \o Collect(k + 1)
        ELSE Collect(k + 1)
  IN IF n = 0 THEN << >> ELSE Collect(0)

\* filledInRow + filledInCol
HintScore(currentGrid, cell) ==
  Cardinality({c \in DOMAIN currentGrid[cell[1]] :
                 currentGrid[cell[1]][c].value # Null})
  + Cardinality({r \in DOMAIN currentGrid :
                   currentGrid[r][cell[2]].value # Null})

\* the first cell of the list sorted by falling score; the sort is stable, so
\* it is the first cell of emptyCells with the highest score
findEasiestCell(currentGrid, emptyCells) ==
  IF Len(emptyCells) = 0 THEN NoCell
  ELSE LET best == CHOOSE i \in DOMAIN emptyCells :
                     /\ \A j \in DOMAIN emptyCells :
                          HintScore(currentGrid, emptyCells[j])
                            <= HintScore(currentGrid, emptyCells[i])
                     /\ \A j \in DOMAIN emptyCells :
                          j < i => HintScore(currentGrid, emptyCells[j])
                                     < HintScore(currentGrid, emptyCells[i])
       IN emptyCells[best]

getOperationForCell(p, cell) ==
  IF cell[2] > 0 THEN p.operations.horizontal[cell[1]][cell[2] - 1]
  ELSE IF cell[1] > 0 THEN p.operations.vertical[cell[2]][cell[1] - 1]
  ELSE Plus

\* generateHint(level) for the props puzzle and currentGrid; the messages
\* are written by their first words
generateHint(p, currentGrid, level) ==
  LET easiestCell == findEasiestCell(currentGrid, HintEmptyCells(currentGrid))
  IN CASE level = 1 ->
            [NoHint EXCEPT !.level = 1, !.message = "Astuce : Commence par"]
       [] level = 2 ->
            IF easiestCell # NoCell
            THEN [NoHint EXCEPT !.level = 2,
                                !.message = "Regarde cette zone",
                                !.highlightCells = <<easiestCell>>]
            ELSE [NoHint EXCEPT !.level = 2,
                                !.message = "Essaie de resoudre ligne par ligne"]
       [] level = 3 ->
            IF easiestCell # NoCell
            THEN [NoHint EXCEPT !.level = 3,
                                !.message = "Visualise l'equation",
                                !.highlightCells = <<easiestCell>>,
                                !.showBarModel = TRUE,
                                !.operation =
                                  getOperationForCell(p, easiestCell)]
            ELSE [NoHint EXCEPT !.level = 3,
                                !.message = "Pense a voix haute"]
       [] level = 4 ->
            [NoHint EXCEPT !.level = 4, !.message = "Tu es presque la"]
       [] OTHER ->
            [NoHint EXCEPT !.level = 1, !.message = "Continue comme ca"]

\* a level that goes up at every request
nextHintLevelUnbounded(currentHintLevel) == currentHintLevel + 1

\* if (currentHintLevel < 4) setCurrentHintLevel((prev) => prev + 1)
nextHintLevel(currentHintLevel) ==
  IF currentHintLevel < 4 THEN currentHintLevel + 1 ELSE currentHintLevel

\* the hint button is pressed at most MaxRequests times
MaxRequests == 5

\* the HintSystem is mounted for a puzzle generate returned
InitHint ==
  /\ pc = "hints"
  /\ constraints \in SessionInputs
  /\ outcomes = Outcomes(constraints)
  /\ attempts = 0
  /\ puzzle = NoPuzzle
  /\ untried = {}
  /\ removed = 0
  /\ \E outcome \in outcomes :
       /\ outcome.returned
       /\ result = outcome.puzzle
  /\ line = NoLine
  /\ answer = NoAnswer
  /\ store = setCurrentPuzzle(InitialStore, result)
  /\ gridState = result.grid
  /\ selectedCell = NoCell
  /\ app = NoCall
  /\ factory = << >>
  /\ hints = InitialHints
  /\ played = InitialPlay

\* handleHintRequest(): the App passes currentPuzzle.grid as currentGrid
HintRequest ==
  /\ pc = "hints"
  /\ hints.requests < MaxRequests
  /\ \E hint \in {generateHint(store.currentPuzzle, store.currentPuzzle.grid,
                               hints.currentHintLevel)} :
       hints' = [currentHintLevel |-> nextHintLevel(hints.currentHintLevel),
                 showHint |-> TRUE,
                 hintMessage |-> hint.message,
                 timers |-> Append(hints.timers, hints.requests + 1),
                 requests |-> hints.requests + 1,
                 shown |-> hint]
  /\ UNCHANGED <<pc, constraints, outcomes, attempts, puzzle, untried, removed,
                 result, line, answer, store, gridState, selectedCell, app,
                 factory, played>>

\* the callback of setTimeout(..., 8000) runs: the timers have the same
\* delay, so the oldest runs first
AutoHide ==
  /\ pc = "hints"
  /\ hints.timers # << >>
  /\ hints' = [hints EXCEPT !.showHint = FALSE, !.timers = Tail(hints.timers)]
  /\ UNCHANGED <<pc, constraints, outcomes, attempts, puzzle, untried, removed,
                 result, line, answer, store, gridState, selectedCell, app,
                 factory, played>>

\* the close button of the hint, rendered while showHint is true
CloseHint ==
  /\ pc = "hints"
  /\ hints.showHint
  /\ hints' = [hints EXCEPT !.showHint = FALSE]
  /\ UNCHANGED <<pc, constraints, outcomes, attempts, puzzle, untried, removed,
                 result, line, answer, store, gridState, selectedCell, app,
                 factory, played>>

NextHint == HintRequest \/ AutoHide \/ CloseHint

SpecHint == InitHint /\ [][NextHint]_vars

\* C23: the hint level is 1 when the component is mounted, stays in 1 .. 4
\* and never goes down; the k-th request hands out the hint of level
\* min(k, 4) and then raises the level by one unless it is 4.
C23_HintLevelProgression ==
  /\ [](/\ hints.currentHintLevel \in 1 .. 4
        /\ hints.requests = 0 => hints.currentHintLevel = 1)
  /\ [][/\ hints'.currentHintLevel >= hints.currentHintLevel
        /\ hints'.requests # hints.requests =>
             /\ hints'.shown.level = Min(hints'.requests, 4)
             /\ hints'.currentHintLevel =
                  Min(hints.currentHintLevel + 1, 4)]_vars

\* the fifth request has handed out the hint of level 4 again
C23_Witness ==
  /\ hints.requests = 5
  /\ hints.shown.level = 4
  /\ hints.currentHintLevel = 4

\* C29: a hint that is shown stays visible until the auto-hide timer of its
\* own request runs or the player closes it: the timer of an earlier request
\* does not hide the hint of a later request.
C29_OwnTimerHides ==
  [][(hints.showHint /\ ~hints'.showHint /\ hints'.timers # hints.timers)
       => Head(hints.timers) = hints.requests]_vars

\* ------------------------------------------------------------------------
\* PuzzleGrid: one mounted component
\* ------------------------------------------------------------------------
\* the puzzles a PuzzleGrid is mounted for are returned by these calls
GridInputs ==
  {MkConstraints(2, <<Plus, Divide>>, <<1, 2>>, 3),
   MkConstraints(3, <<Divide>>, <<11, 11>>, 4)}

\* the digits of the number pad and of the keyboard that are pressed: 0, the
\* entered values and 9
Digits == {0} \cup EnteredValues \cup {9}

\* the player enters at most MaxEntries numbers
MaxEntries == 2

Arrows == {"ArrowUp", "ArrowDown", "ArrowLeft", "ArrowRight"}

\* gridState.every((row) => row.every((cell) => cell.value !== null))
allFilled(grid) ==
  \A r \in DOMAIN grid : \A c \in DOMAIN grid[r] : grid[r][c].value # Null

\* the body of the completion effect for the render with the state play and
\* the grid grid
completionEffect(grid, p, play) ==
  IF play.isComplete THEN play
  ELSE IF allFilled(grid) /\ validateAllEquations(grid, p)
  THEN [play EXCEPT !.isComplete = TRUE,
                    !.completions = Append(@, [errors |-> play.errors])]
  ELSE play

\* the effects of the first render: once, and in a development build once
\* more with the values of the same render
mountEffects(grid, p, play) ==
  LET once == completionEffect(grid, p, play)
  IN IF play.development
     THEN completionEffect(grid, p,
                           [once EXCEPT !.isComplete = play.isComplete])
     ELSE once

\* guards that let a selected fixed cell be edited
mayEditSelected(grid, selected) == selected # NoCell

\* if (!selectedCell) return; if (gridState[row][col].isFixed) return
mayEdit(grid, selected) ==
  /\ selected # NoCell
  /\ ~grid[selected[1]][selected[2]].isFixed

\* a test that lets the digit 0 through
acceptsNumberAny(num) == TRUE

\* num > 0, of the number pad and of the keydown handler
acceptsNumber(num) == num > 0

\* checkCellCorrectness(row, col, value) starts a timer; the entry is counted
startCheck(p, play, cell, value) ==
  [play EXCEPT !.checks = Append(@, [row |-> cell[1], col |-> cell[2],
                                     value |-> value]),
               !.entries = @ + 1,
               !.wrong = IF p.solution[cell[1]][cell[2]] # value
                         THEN @ + 1 ELSE @]

\* the new position of the selection after an arrow key
arrowTarget(size, selected, key) ==
  CASE key = "ArrowUp" -> <<Max(0, selected[1] - 1), selected[2]>>
    [] key = "ArrowDown" -> <<Min(size - 1, selected[1] + 1), selected[2]>>
    [] key = "ArrowLeft" -> <<selected[1], Max(0, selected[2] - 1)>>
    [] key = "ArrowRight" -> <<selected[1], Min(size - 1, selected[2] + 1)>>

\* the App has set a puzzle generate returned and renders PuzzleGrid for it
\* for the first time; its effects have not run
InitGrid ==
  /\ pc = "mount"
  /\ constraints \in GridInputs
  /\ \E outcome \in Outcomes(constraints) :
       /\ outcome.returned
       /\ outcomes = {outcome}
       /\ result = outcome.puzzle
  /\ attempts = 0
  /\ puzzle = NoPuzzle
  /\ untried = {}
  /\ removed = 0
  /\ line = NoLine
  /\ answer = NoAnswer
  /\ store = setCurrentPuzzle(InitialStore, result)
  /\ gridState = result.grid
  /\ selectedCell = NoCell
  /\ app = NoCall
  /\ factory = << >>
  /\ hints = InitialHints
  /\ \E development \in BOOLEAN :
       played = [InitialPlay EXCEPT !.development = development]

\* the effects of the mount run: the completion effect, and the effect that
\* registers the keydown handler
MountEffects ==
  /\ pc = "mount"
  /\ pc' = "grid"
  /\ played' = [mountEffects(gridState, store.currentPuzzle, played)
                  EXCEPT !.keyGrid = gridState]
  /\ UNCHANGED <<constraints, outcomes, attempts, puzzle, untried, removed,
                 result, line, answer, store, gridState, selectedCell, app,
                 factory, hints>>

\* handleCellClick(row, col); a new selectedCell makes the effect register a
\* keydown handler of the new render
GridCellClick ==
  /\ pc = "grid"
  /\ \E cell \in Cells(store.currentPuzzle.size) :
       IF gridState[cell[1]][cell[2]].isFixed
       THEN UNCHANGED <<selectedCell, played>>
       ELSE /\ selectedCell' = cell
            /\ played' = [played EXCEPT !.keyGrid = gridState]
  /\ UNCHANGED <<pc, constraints, outcomes, attempts, puzzle, untried, removed,
                 result, line, answer, store, gridState, app, factory, hints>>

\* a button of the number pad: num > 0 && handleNumberInput(num), with the
\* handlers of the last render; the completion effect runs after the render
PadDigit ==
  /\ pc = "grid"
  /\ played.entries < MaxEntries
  /\ \E num \in Digits :
       IF acceptsNumber(num) /\ mayEdit(gridState, selectedCell)
       THEN \E newGrid \in {handleCellValueChange(gridState, selectedCell[1],
                                                  selectedCell[2], num)} :
               /\ gridState' = newGrid
               /\ played' = completionEffect(newGrid, store.currentPuzzle,
                              startCheck(store.currentPuzzle, played,
                                         selectedCell, num))
       ELSE UNCHANGED <<gridState, played>>
  /\ UNCHANGED <<pc, constraints, outcomes, attempts, puzzle, untried, removed,
                 result, line, answer, store, selectedCell, app, factory,
                 hints>>

\* the clear button: handleClear() of the last render
PadClear ==
  /\ pc = "grid"
  /\ IF mayEdit(gridState, selectedCell)
     THEN \E newGrid \in {handleCellValueChange(gridState, selectedCell[1],
                                                selectedCell[2], Null)} :
             /\ gridState' = newGrid
             /\ played' = completionEffect(newGrid, store.currentPuzzle,
                                           played)
     ELSE UNCHANGED <<gridState, played>>
  /\ UNCHANGED <<pc, constraints, outcomes, attempts, puzzle, untried, removed,
                 result, line, answer, store, selectedCell, app, factory,
                 hints>>

\* a digit key: the registered handler calls the handleNumberInput of the
\* render it was registered in, which maps the gridState of that render
KeyDigit ==
  /\ pc = "grid"
  /\ selectedCell # NoCell
  /\ played.entries < MaxEntries
  /\ \E num \in Digits :
       IF acceptsNumber(num) /\ mayEdit(played.keyGrid, selectedCell)
       THEN \E newGrid \in {handleCellValueChange(played.keyGrid,
                                                  selectedCell[1],
                                                  selectedCell[2], num)} :
               /\ gridState' = newGrid
               /\ played' = completionEffect(newGrid, store.currentPuzzle,
                              startCheck(store.currentPuzzle, played,
                                         selectedCell, num))
       ELSE UNCHANGED <<gridState, played>>
  /\ UNCHANGED <<pc, constraints, outcomes, attempts, puzzle, untried, removed,
                 result, line, answer, store, selectedCell, app, factory,
                 hints>>

\* an arrow key: setSelectedCell of the clamped neighbour, fixed or not
KeyArrow ==
  /\ pc = "grid"
  /\ selectedCell # NoCell
  /\ \E key \in Arrows :
       selectedCell' = arrowTarget(store.currentPuzzle.size, selectedCell, key)
  /\ played' = [played EXCEPT !.keyGrid = gridState]
  /\ UNCHANGED <<pc, constraints, outcomes, attempts, puzzle, untried, removed,
                 result, line, answer, store, gridState, app, factory, hints>>

\* Delete or Backspace: handleClear() of the render the handler was
\* registered in
KeyDelete ==
  /\ pc = "grid"
  /\ selectedCell # NoCell
  /\ IF mayEdit(played.keyGrid, selectedCell)
     THEN \E newGrid \in {handleCellValueChange(played.keyGrid,
                                                selectedCell[1],
                                                selectedCell[2], Null)} :
             /\ gridState' = newGrid
             /\ played' = completionEffect(newGrid, store.currentPuzzle,
                                           played)
     ELSE UNCHANGED <<gridState, played>>
  /\ UNCHANGED <<pc, constraints, outcomes, attempts, puzzle, untried, removed,
                 result, line, answer, store, selectedCell, app, factory,
                 hints>>

\* the callback of the oldest timer of checkCellCorrectness runs, and the
\* completion effect after the render it causes
CheckTimer ==
  /\ pc = "grid"
  /\ played.checks # << >>
  /\ \E check \in {Head(played.checks)} :
       \E isCorrect \in
            {store.currentPuzzle.solution[check.row][check.col]
               = check.value} :
          played' =
            completionEffect(gridState, store.currentPuzzle,
              [played EXCEPT
                 !.checks = Tail(@),
                 !.feedback = [row |-> check.row, col |-> check.col,
                               type |-> IF isCorrect THEN "correct"
                                        ELSE "incorrect"],
                 !.errors = IF isCorrect THEN @ ELSE @ + 1,
                 !.clears = @ + 1])
  /\ UNCHANGED <<pc, constraints, outcomes, attempts, puzzle, untried, removed,
                 result, line, answer, store, gridState, selectedCell, app,
                 factory, hints>>

\* the callback of a timer that clears the feedback runs
ClearTimer ==
  /\ pc = "grid"
  /\ played.clears > 0
  /\ played' = [played EXCEPT !.feedback = Null, !.clears = @ - 1]
  /\ UNCHANGED <<pc, constraints, outcomes, attempts, puzzle, untried, removed,
                 result, line, answer, store, gridState, selectedCell, app,
                 factory, hints>>

NextGrid ==
  \/ MountEffects
  \/ GridCellClick
  \/ PadDigit
  \/ PadClear
  \/ KeyDigit
  \/ KeyArrow
  \/ KeyDelete
  \/ CheckTimer
  \/ ClearTimer

SpecGrid == InitGrid /\ [][NextGrid]_vars

\* C22: whatever the player clicks, moves to, enters or clears, every fixed
\* cell holds its original value: a click never selects a fixed cell, and a
\* number or a clear does nothing while the selection, moved there by the
\* arrow keys, is on a fixed cell.
C22_FixedCellsKept ==
  /\ [](pc = "grid" =>
          \A cell \in Cells(store.currentPuzzle.size) :
             store.currentPuzzle.grid[cell[1]][cell[2]].isFixed =>
               gridState[cell[1]][cell[2]]
                 = store.currentPuzzle.grid[cell[1]][cell[2]])
  /\ [][pc = "grid" =>
          /\ (selectedCell' # selectedCell
              /\ gridState[selectedCell'[1]][selectedCell'[2]].isFixed)
               => /\ selectedCell # NoCell
                  /\ \E key \in Arrows :
                       selectedCell' = arrowTarget(store.currentPuzzle.size,
                                                   selectedCell, key)
          /\ (selectedCell # NoCell
              /\ gridState[selectedCell[1]][selectedCell[2]].isFixed)
               => gridState' = gridState]_vars

\* the arrow keys have moved the selection onto a fixed cell after the
\* player entered a number elsewhere
C22_Witness ==
  /\ pc = "grid"
  /\ selectedCell # NoCell
  /\ gridState[selectedCell[1]][selectedCell[2]].isFixed
  /\ played.entries = MaxEntries

\* C27: the errors handed to onComplete are the number of entries the player
\* made before the completion whose value differs from puzzle.solution, the
\* entry that fills the last empty cell included, however the 300 ms timers
\* and the completion effect interleave.
C27_ErrorsCountWrongEntries ==
  [][Len(played'.completions) > Len(played.completions) =>
       played'.completions[Len(played'.completions)].errors
         = played'.wrong]_vars

\* C28: a mounted PuzzleGrid calls onComplete at most once, and only when
\* every cell of the grid has a value; isComplete, once true, stays true.
C28_CompletesOnce ==
  /\ [](Len(played.completions) <= 1)
  /\ [][/\ played'.completions # played.completions => allFilled(gridState')
        /\ played.isComplete => played'.isComplete]_vars

\* C30: whatever the player enters, a cell that is not fixed holds null or
\* an integer of 1 .. 9: neither the pad nor the keyboard places 0 or a
\* number of 10 .. 20, so that a grid cannot be filled with a solution that
\* has such a number at a blank cell.
C30_EntriesAreDigits ==
  pc = "grid" =>
    /\ \A cell \in Cells(store.currentPuzzle.size) :
         ~gridState[cell[1]][cell[2]].isFixed =>
           gridState[cell[1]][cell[2]].value \in {Null} \cup 1 .. 9
    /\ (\E cell \in BlankCells(store.currentPuzzle) :
          store.currentPuzzle.solution[cell[1]][cell[2]] >= 10)
         => \E cell \in Cells(store.currentPuzzle.size) :
              gridState[cell[1]][cell[2]].value
                # store.currentPuzzle.solution[cell[1]][cell[2]]

\* the blank cells of a puzzle whose solution has 11 at them are filled, one
\* of them with 9
C30_Witness ==
  /\ pc = "grid"
  /\ allFilled(gridState)
  /\ \E cell \in BlankCells(store.currentPuzzle) :
       /\ store.currentPuzzle.solution[cell[1]][cell[2]] >= 10
       /\ gridState[cell[1]][cell[2]].value = 9


====
